---- MODULE Spec2Model ----
(***************************************************************************)
(* A model of the resource- and pipeline-management core of mini-renderer: *)
(* ResourceHandle (src/managers/resource_handle.rs), UniformBuffer and     *)
(* ObservableData (src/uniform), Material (src/types/material.rs),         *)
(* PipelineManager (src/managers/pipeline_manager.rs) and ResourceManager  *)
(* (src/managers/resource_manager.rs).                                     *)
(*                                                                         *)
(* Each subsystem has its own next-state relation over the shared state,   *)
(* so that each property is checked on the operations it is about:         *)
(*   SpecHandle   - ResourceHandle new / clone / drop                      *)
(*   SpecUniform  - uniform buffers, models and the per-frame sync         *)
(*   SpecMaterial - materials, shaders and bind-group generation           *)
(*   SpecPipeline - the pipeline cache                                     *)
(***************************************************************************)
EXTENDS Integers, Sequences, FiniteSets, TLC

(***************************************************************************)
(* Bounds of the model.                                                    *)
(***************************************************************************)
MaxAllocs == 2
MaxClones == 3
MaxMeshes == 2
MaxMaterials == 2
MaxModels == 1
MaxUniforms == 2
MaxTextures == 1
MaxShaders == 2
MaxHeld == 3
MaxThreads == 2
MaxExtent == 2

VARIABLES
    rc,        \* ResourceHandleRaw.rc of each control block
    block,     \* "unallocated" | "live" | "freed": the Box of each control block
    held,      \* number of live ResourceHandle values pointing at each block
    clones,    \* history: completed clone() calls per block
    drops,     \* history: completed drop() calls per block
    frees,     \* history: number of Box::from_raw (frees) per block
    addr,      \* the address of each control block (ResourceHandle.ptr)
    uuid,      \* ResourceHandleRaw.uuid of each control block
    rtype,     \* ResourceHandle.resource_type of the handles of each block
    panicked,  \* the process has terminated in a panic
    meshes,    \* ResourceManager.meshes: handle -> Mesh
    materials, \* ResourceManager.materials: handle -> Material
    models,    \* ResourceManager.models: handle -> Model
    uniforms,  \* ResourceManager.uniforms: handle -> UniformBuffer
    textures,  \* ResourceManager.textures: handle -> Texture
    shaders,   \* ShaderManager.shaders: handle -> Shader
    uhist,     \* history: per uniform, the caller's last update_uniform_buffer
    synced_transform, \* history: per model, its transform at the last sync
    pipelines, \* PipelineManager.pipelines: handle -> Pipeline
    hrc,       \* ResourceHandleRaw.rc of the control block of each manager handle
    hext,      \* the number of handles of each manager handle the caller holds
    gen_creates, \* history: GPU objects created by the last generate_bind_groups
    plog,      \* history: the first create_pipeline call of each vertex layout
               \* and the last create_pipeline call, with what they returned
    mesh_path, \* history: the path argument of the last load_mesh call
    mesh_vertex_buffers, \* ResourceManager.mesh_vertex_buffers: handle -> buffers
    mesh_index_buffers,  \* ResourceManager.mesh_index_buffers: handle -> buffers
    pc,        \* the position of the event loop's thread in the RedrawRequested handler
    lock,      \* MutHandle<ResourceManager>: the holders of a MutexGuard
    steps,     \* history: the steps the current frame has completed, in order
    bind_calls, \* history: the bind_material calls of the current frame
    threads,   \* the threads cloning and dropping handles, each with its position
    surface,   \* SurfaceWrapper: the stored configuration and the one the surface has
    last_size, \* history: the latest size the window layer has delivered
    frame_size \* history: the size of the frame the current handler has rendered

hvars == <<rc, block, held, clones, drops, frees, addr, uuid, rtype>>

\* the state of the frame handler and of the threads sharing handles
\* the surface and the sizes of the window
wvars == <<surface, last_size>>

fvars == <<pc, lock, steps, bind_calls, threads, wvars, frame_size>>

Allocs == 1..MaxAllocs

\* the addresses the allocator hands out; 0 is no address
Addresses == 1..MaxAllocs

\* the values rand::random() gives a uuid: few, so that uuids coincide
Uuids == {0, 1}

\* the type tags a caller passes to ResourceHandle::new
ResourceTypes == {"Mesh", "Texture"}

(***************************************************************************)
(* ResourceHandle                                                          *)
(***************************************************************************)

\* rc: AtomicUsize::new(1)
InitialCount == 1

\* fetch_add(1, Relaxed): the value stored by clone, from the value observed
CloneStoreBroken(observed) == observed

CloneStore(observed) == observed + 1

\* clone panics when the observed pre-increment count was 0
ClonePanicsNever(observed) == FALSE

ClonePanics(observed) == observed = 0

\* fetch_sub(1, Release): the value stored by drop, from the value observed
DropStore(observed) == observed - 1

\* drop frees the control block exactly when the observed count was 1
DropFreesBroken(observed) == observed <= 2

DropFrees(observed) == observed = 1

HandleInit ==
    /\ rc = [a \in Allocs |-> 0]
    /\ block = [a \in Allocs |-> "unallocated"]
    /\ held = [a \in Allocs |-> 0]
    /\ clones = [a \in Allocs |-> 0]
    /\ drops = [a \in Allocs |-> 0]
    /\ frees = [a \in Allocs |-> 0]
    /\ addr = [a \in Allocs |-> 0]
    /\ uuid = [a \in Allocs |-> 0]
    /\ rtype = [a \in Allocs |-> "None"]

\* the addresses of the control blocks that are allocated and not freed
LiveAddresses == {addr[a] : a \in {b \in Allocs : block[b] = "live"}}

\* ResourceHandle::new: a fresh control block with count 1 and one handle;
\* Box::new places it at an address no live block has, one of a freed block
\* included
HandleNew(a) ==
    /\ ~panicked
    /\ block[a] = "unallocated"
    /\ \A b \in Allocs : b < a => block[b] # "unallocated"
    /\ block' = [block EXCEPT ![a] = "live"]
    /\ rc' = [rc EXCEPT ![a] = InitialCount]
    /\ held' = [held EXCEPT ![a] = 1]
    /\ \E p \in Addresses \ LiveAddresses : addr' = [addr EXCEPT ![a] = p]
    /\ \E u \in Uuids : uuid' = [uuid EXCEPT ![a] = u]
    /\ \E t \in ResourceTypes : rtype' = [rtype EXCEPT ![a] = t]
    /\ UNCHANGED <<clones, drops, frees, panicked>>

\* Clone for ResourceHandle, called on one of the live handles of block a
HandleClone(a) ==
    /\ ~panicked
    /\ held[a] > 0
    /\ clones[a] < MaxClones
    /\ rc' = [rc EXCEPT ![a] = CloneStore(rc[a])]
    /\ IF ClonePanics(rc[a])
       THEN /\ panicked' = TRUE
            /\ UNCHANGED <<held, clones>>
       ELSE /\ held' = [held EXCEPT ![a] = @ + 1]
            /\ clones' = [clones EXCEPT ![a] = @ + 1]
            /\ UNCHANGED panicked
    /\ UNCHANGED <<block, drops, frees, addr, uuid, rtype>>

\* Drop for ResourceHandle, of one of the live handles of block a
HandleDrop(a) ==
    /\ ~panicked
    /\ held[a] > 0
    /\ rc' = [rc EXCEPT ![a] = DropStore(rc[a])]
    /\ held' = [held EXCEPT ![a] = @ - 1]
    /\ drops' = [drops EXCEPT ![a] = @ + 1]
    /\ IF DropFrees(rc[a])
       THEN /\ block' = [block EXCEPT ![a] = "freed"]
            /\ frees' = [frees EXCEPT ![a] = @ + 1]
       ELSE UNCHANGED <<block, frees>>
    /\ UNCHANGED <<clones, panicked, addr, uuid, rtype>>

\* a live handle of block a: the pointer and the type tag (clone copies both)
HandleOf(a) == [ptr |-> addr[a], resource_type |-> rtype[a]]

\* ResourceHandle::get_uuid: the uuid read through the pointer
GetUuid(h) == uuid[CHOOSE a \in Allocs : block[a] = "live" /\ addr[a] = h.ptr]

\* PartialEq for ResourceHandle: self.ptr == other.ptr
HandleEqByUuid(x, y) == GetUuid(x) = GetUuid(y)

HandleEq(x, y) == x.ptr = y.ptr

\* #[derive(Hash)] on ResourceHandle: the pointer, then the type tag
HandleHashWords(h) == <<h.ptr, IF h.resource_type = "Mesh" THEN 1 ELSE 2>>

(***************************************************************************)
(* Handles of the manager's maps.  A handle is identified by its           *)
(* allocation (PartialEq compares ptr); the model names an allocation by   *)
(* the map whose creation operation made it and its rank in that map.      *)
(***************************************************************************)
\* ResourceHandle.resource_type of the handles a creation operation makes:
\* create_uniform_buffer tags its handles Material
TagOf(cat) ==
    CASE cat = "mesh" -> "Mesh"
      [] cat = "texture" -> "Texture"
      [] cat = "material" -> "Material"
      [] cat = "uniform" -> "Material"
      [] cat = "shader" -> "Shader"
      [] cat = "model" -> "Model"
      [] cat = "pipeline" -> "Pipeline"

NewHandleByTag(cat, map) == <<TagOf(cat), Cardinality(DOMAIN map) + 1>>

NewHandle(cat, map) == <<cat, Cardinality(DOMAIN map) + 1>>

\* Option<T>
None == <<>>

Some(x) == <<x>>

(***************************************************************************)
(* Transform, TransformUniform and AsBytes.  A transform is modelled in    *)
(* one dimension (position, scale; the rotation is the identity), its      *)
(* matrix as the 2x2 homogeneous matrix T * S, stored as columns.          *)
(***************************************************************************)
Positions == {0, 1}

Scales == {1, 2}

Transforms == {t \in [position : Positions, scale : Scales] : t.position = 0 \/ t.scale = 1}

\* 2x2 matrices as a tuple of columns; m[c][r]
MatMul(a, b) ==
    [c \in 1..2 |-> [r \in 1..2 |-> a[1][r] * b[c][1] + a[2][r] * b[c][2]]]

FromTranslation(p) == <<<<1, 0>>, <<p, 1>>>>

FromScale(s) == <<<<s, 0>>, <<0, 1>>>>

\* Transform::get_matrix: translation * rotation * scale
GetMatrix(t) == MatMul(FromTranslation(t.position), FromScale(t.scale))

\* TransformUniform::new: transform.get_matrix().to_cols_array_2d()
TransformUniformNew(t) == [transform |-> GetMatrix(t)]

\* payloads a caller hands to create_uniform_buffer / update_uniform_buffer:
\* a struct of one matrix, like the example's CameraUniform
UserData == {[view |-> <<<<1, 0>>, <<0, 1>>>>], [view |-> <<<<3, 0>>, <<7, 1>>>>]}

\* a payload of half the size, a struct of one vector
ShortData == [view |-> <<<<5>>, <<6>>>>]

\* AsBytes::as_bytes: the raw memory of the struct, column after column
AsBytes(d) ==
    LET m == IF "transform" \in DOMAIN d THEN d.transform ELSE d.view
    IN  m[1] \o m[2]

(***************************************************************************)
(* ObservableData and UniformBuffer                                        *)
(***************************************************************************)

\* queue.write_buffer(&buffer, 0, bytes) with more bytes than the buffer has:
\* a validation error of the device, which is fatal
WriteOverruns(gpu, bytes) == Len(bytes) > Len(gpu)

\* queue.write_buffer(&buffer, 0, bytes): overwrites the buffer from offset 0
\* for the length of bytes; the bytes of the buffer after them stay
WriteBuffer(gpu, bytes) ==
    [i \in 1..Len(gpu) |-> IF i <= Len(bytes) THEN bytes[i] ELSE gpu[i]]

\* UniformBuffer::new: the GPU buffer is created holding the initial bytes,
\* ObservableData::new starts clean.  writes is history: the number of
\* queue.write_buffer calls on the buffer since the last set_data
UniformBufferNew(d) == [data |-> d, dirty |-> FALSE, gpu |-> AsBytes(d), writes |-> 0]

\* UniformBuffer::set_data -> ObservableData::set
SetData(u, d) == [u EXCEPT !.data = d, !.dirty = TRUE, !.writes = 0]

\* UniformBuffer::update: upload if dirty, then clear the flag
UploadNever(u) == [u EXCEPT !.dirty = FALSE]

\* a mutation of UniformBuffer::update: the payload is written on every call
UploadAlways(u) ==
    [u EXCEPT !.gpu = WriteBuffer(u.gpu, AsBytes(u.data)), !.dirty = FALSE,
              !.writes = @ + 1]

Upload(u) ==
    IF u.dirty
    THEN [u EXCEPT !.gpu = WriteBuffer(u.gpu, AsBytes(u.data)), !.dirty = FALSE,
                   !.writes = @ + 1]
    ELSE u

\* ResourceManager::update_uniform_buffer: set_data, then update(queue)
UpdateUniformDeferred(u, d) == SetData(u, d)

UpdateUniform(u, d) == Upload(SetData(u, d))

(***************************************************************************)
(* Mesh                                                                    *)
(***************************************************************************)

\* Vertex::desc()
VertexDesc ==
    [array_stride |-> 32, step_mode |-> "Vertex",
     attributes |-> << [offset |-> 0, shader_location |-> 0, format |-> "Float32x3"],
                       [offset |-> 12, shader_location |-> 1, format |-> "Float32x3"],
                       [offset |-> 24, shader_location |-> 2, format |-> "Float32x2"] >>]

\* the number of models (obj) or primitives (gltf) of the file at a path:
\* a cube of one, a scene of two and an empty scene
SubMeshCount(path) ==
    IF path = "a.gltf" THEN 2 ELSE IF path = "a.glb" THEN 0 ELSE 1

\* Mesh::load_obj / load_gltf: one submesh per model or primitive of the
\* file; every loaded mesh has the layout [Vertex::desc()]
LoadedMesh(path) ==
    [layout |-> <<VertexDesc>>, sub_meshes |-> [i \in 1..SubMeshCount(path) |-> path]]

\* Buffer::create_buffer_from_type for the vertices or the indices of a submesh
MeshBuffer(type, sub_mesh, i) == [buffer_type |-> type, of |-> <<sub_mesh, i>>]

\* a mutation of MeshBuffers: no buffer for the last submesh
MeshBuffersButLast(mesh, type) ==
    [i \in 1..(Len(mesh.sub_meshes) - 1) |-> MeshBuffer(type, mesh.sub_meshes[i], i)]

\* load_mesh, the loop over mesh.get_sub_meshes(): one buffer pushed per submesh
MeshBuffers(mesh, type) ==
    [i \in 1..Len(mesh.sub_meshes) |-> MeshBuffer(type, mesh.sub_meshes[i], i)]

(***************************************************************************)
(* ShaderReflect and Shader.  A shader source is modelled as the sequence  *)
(* of its binding declarations: space = "" for an opaque-resource          *)
(* declaration (var name: type), else the address space of var<space>.     *)
(***************************************************************************)
Decl(g, b, space, name, type) ==
    [group |-> g, binding |-> b, space |-> space, name |-> name, type |-> type]

\* tex_type.contains("sampler")
ContainsSampler(type) ==
    \E i \in 1..(Len(type) - 6) : SubSeq(type, i, i + 6) = "sampler"

\* capture 4 of the first pattern, ([^<;]+): the declared type up to its
\* first '<' (or to the ';' that ends the declaration)
RECURSIVE CapturedType(_, _)
CapturedType(type, i) ==
    IF i > Len(type) \/ SubSeq(type, i, i) = "<" THEN SubSeq(type, 1, i - 1)
    ELSE CapturedType(type, i + 1)

\* the binding the first pattern (re_tex) records for an opaque declaration
OpaqueBinding(d) ==
    [group |-> d.group, binding |-> d.binding, name |-> d.name,
     binding_type |-> IF ContainsSampler(CapturedType(d.type, 1))
                      THEN "TextureSampler" ELSE "Texture"]

\* the binding the second pattern (re_binding_type) records for var<space>
TypedBinding(d) ==
    [group |-> d.group, binding |-> d.binding, name |-> d.name,
     binding_type |-> IF d.space = "uniform" THEN "Uniform" ELSE "Storage"]

\* \w+: a word, here a text without a comma or a blank
IsWord(s) == s # "" /\ \A i \in 1..Len(s) : SubSeq(s, i, i) \notin {",", " "}

\* the second pattern, var\s*\W(\w+)\W\s*(\w+)\s*:, matches var<space> name:
\* only when one word stands between '<' and '>': var<storage, read_write>
\* is not matched (nor is it by the first pattern)
TypedMatches(d) == IsWord(d.space)

\* a mutation of ReflectPanics: no keyword is refused
ReflectPanicsNever(src) == FALSE

\* any address space other than uniform / storage: panic!("Unknown binding type")
ReflectPanics(src) ==
    \E i \in 1..Len(src) :
        TypedMatches(src[i]) /\ src[i].space \notin {"uniform", "storage"}

\* one loop of ShaderReflect::reflect: bindings.insert(name, ..) for each match
RECURSIVE ReflectPass(_, _, _, _)
ReflectPass(src, i, typed, table) ==
    IF i > Len(src) THEN table
    ELSE IF (typed /\ TypedMatches(src[i])) \/ (~typed /\ src[i].space = "")
         THEN ReflectPass(src, i + 1, typed,
                  (src[i].name :> (IF typed THEN TypedBinding(src[i])
                                   ELSE OpaqueBinding(src[i]))) @@ table)
         ELSE ReflectPass(src, i + 1, typed, table)

\* ShaderReflect::reflect: the opaque declarations, then the typed ones
Reflect(src) == ReflectPass(src, 1, TRUE, ReflectPass(src, 1, FALSE, <<>>))

\* Shader::generate_bindings: the layout of a group, one entry for each
\* binding of the group, of the type of the binding
BindGroupLayout(binds, g) ==
    {[binding |-> binds[n].binding, ty |-> binds[n].binding_type] :
        n \in {x \in DOMAIN binds : binds[x].group = g}}

\* Shader::new and generate_bindings: one bind group layout per group
ShaderNew(src) ==
    LET binds == Reflect(src)
    IN  [source |-> src, binds |-> binds,
         bind_group_layouts |->
            [g \in {binds[n].group : n \in DOMAIN binds} |-> BindGroupLayout(binds, g)]]

\* the shader sources an application loads
SrcDiffuse == <<Decl(0, 0, "", "diffuse", "texture_2d<f32>")>>

SrcLit ==
    <<Decl(0, 0, "uniform", "camera", "Camera"),
      Decl(1, 0, "", "diffuse", "texture_2d<f32>"),
      Decl(1, 1, "", "diffuse_sampler", "sampler")>>

ShaderSources == {SrcDiffuse, SrcLit}

\* a shader of one uniform binding
SrcCamera == <<Decl(0, 0, "uniform", "camera", "Camera")>>

\* shader sources for the reflection alone: every address space, a storage
\* buffer with an access mode, sampler types, names declared twice
ReflectSources ==
    ShaderSources \cup
    {<<>>,
     <<Decl(0, 0, "storage", "particles", "Particles")>>,
     <<Decl(0, 0, "private", "scratch", "f32")>>,
     <<Decl(0, 0, "workgroup", "tile", "Tile")>>,
     <<Decl(0, 0, "Uniform", "camera", "Camera")>>,
     <<Decl(1, 2, "storage, read_write", "particles", "Particles")>>,
     <<Decl(0, 1, "", "shadow_sampler", "sampler_comparison")>>,
     <<Decl(0, 0, "", "samplers", "binding_array<sampler>")>>,
     <<Decl(0, 0, "", "diffuse", "texture_2d<f32>"), Decl(1, 1, "", "diffuse", "sampler")>>,
     <<Decl(0, 0, "uniform", "camera", "Camera"), Decl(0, 1, "", "camera", "texture_2d<f32>")>>,
     <<Decl(0, 0, "uniform", "camera", "Camera"), Decl(1, 0, "storage", "camera", "Camera")>>,
     <<Decl(0, 0, "uniform", "camera", "Camera"), Decl(0, 1, "private", "scratch", "f32")>>,
     <<Decl(2, 3, "uniform", "light", "Light"), Decl(2, 4, "storage", "lights", "Lights")>>}

(***************************************************************************)
(* Material                                                                *)
(***************************************************************************)

\* the names under which the application assigns textures and uniforms
TextureNames == {"diffuse", "normal"}

UniformNames == {"camera"}

\* a mutation of Material::new: the material starts clean
MaterialNewClean ==
    [textures |-> <<>>, uniforms |-> <<>>,
     bind_groups |-> <<>>, bind_group_buffers |-> <<>>,
     needs_regen |-> FALSE,
     shader_handle |-> None, shader_bindings |-> None]

\* Material::new
MaterialNew ==
    [textures |-> <<>>, uniforms |-> <<>>,
     bind_groups |-> <<>>, bind_group_buffers |-> <<>>,
     needs_regen |-> TRUE,
     shader_handle |-> None, shader_bindings |-> None]

\* Material::add_texture
AddTexture(mat, name, h) ==
    [mat EXCEPT !.textures = (name :> h) @@ @, !.needs_regen = TRUE]

\* Material::add_uniform
AddUniformIfNew(mat, name, h) ==
    [mat EXCEPT !.uniforms = (name :> h) @@ @,
                !.needs_regen = @ \/ name \notin DOMAIN mat.uniforms]

AddUniform(mat, name, h) ==
    [mat EXCEPT !.uniforms = (name :> h) @@ @, !.needs_regen = TRUE]

\* Material::set_shader
SetShaderHandleOnly(mat, h, bindings) == [mat EXCEPT !.shader_handle = Some(h)]

SetShader(mat, h, bindings) ==
    [mat EXCEPT !.shader_handle = Some(h), !.shader_bindings = Some(bindings)]

\* Material::get_shader: self.shader_handle.as_ref().unwrap().clone(); None
\* stands for the panic of the unwrap
GetShaderOrFirst(mat) ==
    IF mat.shader_handle = None /\ DOMAIN shaders # {}
    THEN Some(CHOOSE h \in DOMAIN shaders : TRUE)
    ELSE mat.shader_handle

GetShader(mat) == mat.shader_handle

\* Buffer::create_buffer_from_bytes
BufferNew(bytes) == [size |-> Len(bytes), bytes |-> bytes]

\* Buffer::create_buffer_from_bytes of a Uniform buffer: create_buffer_init,
\* create_bind_group_layout, create_bind_group
BufferCreates == 3

\* Buffer::copy_buffer: copies self.size bytes of the source into the buffer
CopyBuffer(buf, src) == [buf EXCEPT !.bytes = WriteBuffer(@, SubSeq(src, 1, buf.size))]

\* Material::update: every copy buffer whose name is also the name of an
\* assigned uniform receives that uniform's GPU bytes.  It fails on the
\* unwrap of the lookup, and in copy_buffer_to_buffer (a validation error,
\* fatal with the default handler) when the uniform's buffer is shorter than
\* the size of the copy buffer
MaterialUpdateFails(mat, us) ==
    \E n \in DOMAIN mat.bind_group_buffers \cap DOMAIN mat.uniforms :
        \/ mat.uniforms[n] \notin DOMAIN us
        \/ Len(us[mat.uniforms[n]].gpu) < mat.bind_group_buffers[n].size

MaterialUpdate(mat, us) ==
    [mat EXCEPT !.bind_group_buffers =
        [n \in DOMAIN mat.bind_group_buffers |->
            IF n \in DOMAIN mat.uniforms
            THEN CopyBuffer(mat.bind_group_buffers[n], us[mat.uniforms[n]].gpu)
            ELSE mat.bind_group_buffers[n]]]

(***************************************************************************)
(* Material::generate_bind_groups                                          *)
(***************************************************************************)

\* if !self.needs_regen { return; }
GenSkipsNever(mat) == FALSE

GenSkips(mat) == ~mat.needs_regen

\* self.shader_bindings.as_ref().unwrap()
Bindings(mat) == mat.shader_bindings[1]

NamesOfType(mat, type) ==
    {n \in DOMAIN Bindings(mat) : Bindings(mat)[n].binding_type = type}

\* first pass, Uniform arm: the two unwrap_or_else of the lookup
UniformResolves(mat, us, n) == n \in DOMAIN mat.uniforms /\ mat.uniforms[n] \in DOMAIN us

FirstPassFailsUniformOnly(mat, us) ==
    \E n \in NamesOfType(mat, "Uniform") : ~UniformResolves(mat, us, n)

\* first pass: a Uniform binding that does not resolve, or a Storage binding (todo!())
FirstPassFails(mat, us) ==
    \/ \E n \in NamesOfType(mat, "Uniform") : ~UniformResolves(mat, us, n)
    \/ NamesOfType(mat, "Storage") # {}

\* first pass: a copy buffer seeded with the uniform's current bytes, for the
\* Uniform bindings in the set done
FirstPass(mat, us, done) ==
    [mat EXCEPT !.bind_group_buffers =
        [n \in done |-> BufferNew(AsBytes(us[mat.uniforms[n]].data))] @@ @]

\* a mutation of SamplerTextureName: the binding's own name, nothing stripped
SamplerTextureNameWhole(n) == n

\* second pass, TextureSampler arm: &name[..name.len() - 8]
SamplerTextureName(n) == SubSeq(n, 1, Len(n) - 8)

\* second pass: the texture a Texture or TextureSampler binding is resolved to
TextureNameOf(mat, n) ==
    IF Bindings(mat)[n].binding_type = "TextureSampler" THEN SamplerTextureName(n) ELSE n

TextureResolves(mat, ts, n) ==
    /\ Bindings(mat)[n].binding_type = "TextureSampler" => Len(n) >= 8
    /\ TextureNameOf(mat, n) \in DOMAIN mat.textures
    /\ mat.textures[TextureNameOf(mat, n)] \in DOMAIN ts

SecondPassFails(mat, ts) ==
    \E n \in NamesOfType(mat, "Texture") \cup NamesOfType(mat, "TextureSampler") :
        ~TextureResolves(mat, ts, n)

\* second pass: the wgpu::BindGroupEntry of binding n
Entry(mat, n) ==
    LET b == Bindings(mat)[n]
    IN  [binding |-> b.binding,
         resource |->
            CASE b.binding_type = "Texture" ->
                     <<"TextureView", mat.textures[TextureNameOf(mat, n)]>>
              [] b.binding_type = "TextureSampler" ->
                     <<"Sampler", mat.textures[TextureNameOf(mat, n)]>>
              [] OTHER -> <<"Buffer", n>>]

\* the groups of the entries map, and the bind group built for one of them
\* with the layout the material's shader sh has for the group
Groups(mat) == {Bindings(mat)[n].group : n \in DOMAIN Bindings(mat)}

BindGroupOf(mat, sh, g) ==
    [layout |-> sh.bind_group_layouts[g],
     entries |-> {Entry(mat, n) : n \in {x \in DOMAIN Bindings(mat) : Bindings(mat)[x].group = g}}]

\* the bind groups a generation builds from the shader bindings and assignments
GeneratedBindGroups(mat, sh) == [g \in Groups(mat) |-> BindGroupOf(mat, sh, g)]

\* the end of generate_bind_groups: self.bind_groups.insert(group, ..) for
\* each group; self.needs_regen = false
InsertBindGroups(mat, sh) ==
    [mat EXCEPT !.bind_groups = GeneratedBindGroups(mat, sh) @@ @, !.needs_regen = FALSE]

\* the number of device.create_* calls of a generation that succeeds
GenCreates(mat) ==
    BufferCreates * Cardinality(NamesOfType(mat, "Uniform")) + Cardinality(Groups(mat))

\* the material as a panic leaves it: in the first pass, after the copy buffers
\* of the bindings visited before the failing one (any set of resolving Uniform
\* bindings, the HashMap's order decides); in the second pass, after all of them
PanickedInFirstPassCleared(mat, us, done) ==
    [FirstPass(mat, us, done) EXCEPT !.needs_regen = FALSE]

PanickedInFirstPass(mat, us, done) == FirstPass(mat, us, done)

PanickedInSecondPass(mat, us) == FirstPass(mat, us, NamesOfType(mat, "Uniform"))

(***************************************************************************)
(* PipelineBuildSettings, Pipeline and PipelineManager                     *)
(***************************************************************************)

\* the discriminants #[derive(Hash)] writes for the enums of a vertex layout
StepModeCode(m) == IF m = "Vertex" THEN 0 ELSE 1

FormatCode(f) == IF f = "Float32x2" THEN 1 ELSE 2

\* the words #[derive(Hash)] writes for a VertexBufferLayout: array_stride,
\* step_mode, then the attribute slice (its length, then each attribute)
RECURSIVE AttributeWords(_, _)
AttributeWords(attrs, i) ==
    IF i > Len(attrs) THEN <<>>
    ELSE <<FormatCode(attrs[i].format), attrs[i].offset, attrs[i].shader_location>>
            \o AttributeWords(attrs, i + 1)

DescriptorWords(d) ==
    <<d.array_stride, StepModeCode(d.step_mode), Len(d.attributes)>>
        \o AttributeWords(d.attributes, 1)

\* calculate_hash: what is written to the hasher, the vertex descriptors only
RECURSIVE VertexWords(_, _)
VertexWords(descs, i) ==
    IF i > Len(descs) THEN <<>> ELSE DescriptorWords(descs[i]) \o VertexWords(descs, i + 1)

HashedWordsWithShader(settings) ==
    VertexWords(settings.vertex_descriptors, 1) \o <<settings.shader[2]>>

HashedWords(settings) == VertexWords(settings.vertex_descriptors, 1)

\* DefaultHasher: a deterministic digest of the written words, folded into
\* HashModulus values
HashModulus == 65521

RECURSIVE Digest(_, _, _)
Digest(words, i, h) ==
    IF i > Len(words) THEN h ELSE Digest(words, i + 1, (h * 33 + words[i]) % HashModulus)

\* PipelineBuildSettings::calculate_hash and get_uuid
CalculateHash(settings) == Digest(HashedWords(settings), 1, 5381)

\* the PipelineBuildSettings create_or_get_pipeline builds
BuildSettings(mesh_layout, bind_group_layouts, shader_handle) ==
    [vertex_descriptors |-> mesh_layout, bind_groups |-> bind_group_layouts,
     shader |-> shader_handle, use_depth |-> FALSE]

\* Pipeline::new
PipelineNew(settings, shader_handle) ==
    [uuid |-> CalculateHash(settings), shader |-> shader_handle]

\* create_or_get_pipeline: the registered pipelines whose uuid is the hash of
\* the settings; the loop returns the handle of one of them
MatchingNone(ps, settings) == {}

Matching(ps, settings) == {h \in DOMAIN ps : ps[h].uuid = CalculateHash(settings)}

\* Shader::get_bind_group_layouts: the layouts in ascending order of group
RECURSIVE SortedLayouts(_)
SortedLayouts(layouts) ==
    IF DOMAIN layouts = {} THEN <<>>
    ELSE LET g == CHOOSE x \in DOMAIN layouts : \A y \in DOMAIN layouts : x <= y
         IN  <<layouts[g]>> \o SortedLayouts([y \in DOMAIN layouts \ {g} |-> layouts[y]])

(***************************************************************************)
(* ResourceManager                                                         *)
(***************************************************************************)
\* the state of the shader, texture and pipeline maps
svars == <<textures, shaders, pipelines, gen_creates, plog, mesh_path>>

\* the control blocks of the manager's handles and the caller's handles
ovars == <<hrc, hext>>

\* the buffer maps of the meshes
bvars == <<mesh_vertex_buffers, mesh_index_buffers>>

mvars == <<meshes, bvars, materials, models, uniforms, uhist, synced_transform, svars, ovars>>

\* ResourceHandle::new and the handle.clone() that becomes the key of the map
CreatedWithoutKey(c, h) == (h :> InitialCount) @@ c

Created(c, h) == (h :> CloneStore(InitialCount)) @@ c

\* a clone of handle h stored or returned / a handle of h dropped
Cloned(c, h) == [c EXCEPT ![h] = CloneStore(@)]

Dropped(c, h) == [c EXCEPT ![h] = DropStore(@)]

vars == <<hvars, panicked, mvars, fvars>>

\* the inner size of the window when the renderer is created
InitialSize == [width |-> 1, height |-> 1]

\* SurfaceWrapper::new: the configuration has the window's inner size and
\* the surface is configured with it
SurfaceInit ==
    /\ surface = [config |-> InitialSize, configured |-> InitialSize]
    /\ last_size = InitialSize
    /\ frame_size = None

\* Renderer::run before the first event: nothing holds the resource manager
FrameInit ==
    /\ pc = "idle"
    /\ lock = <<>>
    /\ steps = <<>>
    /\ bind_calls = {}
    /\ threads = <<>>
    /\ SurfaceInit

ManagerInit ==
    /\ meshes = <<>>
    /\ mesh_vertex_buffers = <<>>
    /\ mesh_index_buffers = <<>>
    /\ materials = <<>>
    /\ models = <<>>
    /\ uniforms = <<>>
    /\ uhist = <<>>
    /\ synced_transform = <<>>
    /\ textures = <<>>
    /\ shaders = <<>>
    /\ pipelines = <<>>
    /\ gen_creates = 0
    /\ plog = [first |-> <<>>, last |-> None]
    /\ mesh_path = None
    /\ hrc = <<>>
    /\ hext = <<>>

Init ==
    /\ HandleInit
    /\ panicked = FALSE
    /\ ManagerInit
    /\ FrameInit

\* no caller's update_uniform_buffer on this uniform yet; fresh: the bytes of
\* the last update differed from the bytes the GPU buffer held before it
NoUpdate == [last |-> None, fresh |-> FALSE, synced |-> FALSE]

\* str::ends_with
EndsWith(s, suffix) ==
    /\ Len(s) >= Len(suffix)
    /\ SubSeq(s, Len(s) - Len(suffix) + 1, Len(s)) = suffix

\* the paths the application passes to load_mesh
MeshPaths == {"cube.obj", "a.gltf", "a.glb", "cube.fbx", "cube.obj.bak", "CUBE.OBJ", "obj", ""}

\* a mutation of MeshLoader: a path of no known extension is read as an obj
MeshLoaderDefaultObj(path) ==
    IF EndsWith(path, ".gltf") \/ EndsWith(path, ".glb") THEN "gltf" ELSE "obj"

\* load_mesh: the loader chosen from the extension of the path
MeshLoader(path) ==
    IF EndsWith(path, ".obj") THEN "obj"
    ELSE IF EndsWith(path, ".gltf") \/ EndsWith(path, ".glb") THEN "gltf"
    ELSE "unsupported"

\* ResourceManager::load_mesh: an unsupported extension panics before the
\* handle is created; Mesh::load_obj and Mesh::load_gltf panic when the file
\* cannot be read or parsed (readable = FALSE)
LoadMesh(path, readable) ==
    /\ ~panicked
    /\ Cardinality(DOMAIN meshes) < MaxMeshes
    /\ mesh_path' = Some(path)
    /\ IF MeshLoader(path) = "unsupported" \/ ~readable
       THEN panicked' = TRUE /\ UNCHANGED <<meshes, bvars, ovars>>
       ELSE /\ meshes' = (NewHandle("mesh", meshes) :> LoadedMesh(path)) @@ meshes
            /\ mesh_vertex_buffers' =
                  (NewHandle("mesh", meshes) :> MeshBuffers(LoadedMesh(path), "Vertex"))
                     @@ mesh_vertex_buffers
            /\ mesh_index_buffers' =
                  (NewHandle("mesh", meshes) :> MeshBuffers(LoadedMesh(path), "Index"))
                     @@ mesh_index_buffers
            /\ hrc' = Created(hrc, NewHandle("mesh", meshes))
            /\ hext' = (NewHandle("mesh", meshes) :> 1) @@ hext
            /\ UNCHANGED panicked
    /\ UNCHANGED <<fvars, hvars, textures, shaders, pipelines, gen_creates, plog, materials, models,
                   uniforms, uhist, synced_transform>>

\* ResourceManager::create_material
CreateMaterial ==
    /\ ~panicked
    /\ Cardinality(DOMAIN materials) < MaxMaterials
    /\ materials' = (NewHandle("material", materials) :> MaterialNew) @@ materials
    /\ hrc' = Created(hrc, NewHandle("material", materials))
    /\ hext' = (NewHandle("material", materials) :> 1) @@ hext
    /\ UNCHANGED <<fvars, hvars, svars, panicked, meshes, bvars, models, uniforms, uhist, synced_transform>>

\* the transform uniforms of the models
TransformUniformHandles == {models[m].transform_uniform_handle : m \in DOMAIN models}

\* ResourceManager::create_uniform_buffer
CreateUniformBuffer(d) ==
    /\ ~panicked
    /\ Cardinality(DOMAIN uniforms) < MaxUniforms
    /\ LET h == NewHandle("uniform", uniforms)
       IN  /\ uniforms' = (h :> UniformBufferNew(d)) @@ uniforms
           /\ uhist' = (h :> NoUpdate) @@ uhist
    /\ hrc' = Created(hrc, NewHandle("uniform", uniforms))
    /\ hext' = (NewHandle("uniform", uniforms) :> 1) @@ hext
    /\ UNCHANGED <<fvars, hvars, svars, panicked, meshes, bvars, materials, models, synced_transform>>

\* ResourceManager::update_uniform_buffer, called by the application
UpdateUniformBuffer(h, d) ==
    /\ ~panicked
    /\ IF h \notin DOMAIN uniforms
       THEN /\ panicked' = TRUE
            /\ UNCHANGED <<uniforms, uhist>>
       ELSE IF WriteOverruns(uniforms[h].gpu, AsBytes(d))
       THEN /\ uniforms' = [uniforms EXCEPT ![h] = SetData(@, d)]
            /\ panicked' = TRUE
            /\ UNCHANGED uhist
       ELSE /\ uniforms' = [uniforms EXCEPT ![h] = UpdateUniform(@, d)]
            /\ uhist' = [uhist EXCEPT ![h] =
                            [last |-> Some(d), fresh |-> (AsBytes(d) # uniforms[h].gpu),
                             synced |-> FALSE]]
            /\ UNCHANGED panicked
    /\ UNCHANGED <<fvars, hvars, ovars, svars, meshes, bvars, materials, models, synced_transform>>

\* UniformBuffer::set_data on the buffer of uniform h
UniformSetData(h, d) ==
    /\ ~panicked
    /\ h \in DOMAIN uniforms
    /\ uniforms' = [uniforms EXCEPT ![h] = SetData(@, d)]
    /\ UNCHANGED <<fvars, hvars, ovars, svars, panicked, uhist, meshes, bvars, materials, models,
                   synced_transform>>

\* UniformBuffer::update(queue) on the buffer of uniform h
UniformUpdate(h) ==
    /\ ~panicked
    /\ h \in DOMAIN uniforms
    /\ uniforms' = [uniforms EXCEPT ![h] = Upload(@)]
    /\ UNCHANGED <<fvars, hvars, ovars, svars, panicked, uhist, meshes, bvars, materials, models,
                   synced_transform>>

\* a mutation of ModelNew: every model is given the first uniform of the map
ModelNewFirstUniform(mesh, material, t, th) ==
    [mesh |-> mesh, material |-> material, transform |-> t,
     transform_uniform_handle |-> <<"uniform", 1>>]

\* Model::new
ModelNew(mesh, material, t, th) ==
    [mesh |-> mesh, material |-> material, transform |-> t,
     transform_uniform_handle |-> th]

\* ResourceManager::create_model: creates the transform uniform, then the model
\* (the number of models is capped by the number of uniforms)
CreateModel(mesh, material, t) ==
    /\ ~panicked
    /\ Cardinality(DOMAIN uniforms) < MaxUniforms
    /\ LET h == NewHandle("model", models)
           th == NewHandle("uniform", uniforms)
       IN  /\ uniforms' = (th :> UniformBufferNew(TransformUniformNew(t))) @@ uniforms
           /\ uhist' = (th :> NoUpdate) @@ uhist
           /\ models' = (h :> ModelNew(mesh, material, t, th)) @@ models
           /\ synced_transform' = (h :> t) @@ synced_transform
           /\ hrc' = Cloned(Cloned(Created(Created(hrc, th), h), mesh), material)
           /\ hext' = (h :> 1) @@ (th :> 0) @@ hext
    /\ UNCHANGED <<fvars, hvars, svars, panicked, meshes, bvars, materials>>

\* a mutation of the live transform through the Handle<Transform> returned
\* by ResourceManager::get_model_transform (Transform::set_position / set_scale)
SetModelTransform(m, t) ==
    /\ ~panicked
    /\ m \in DOMAIN models
    /\ t # models[m].transform
    /\ \/ t.position = models[m].transform.position
       \/ t.scale = models[m].transform.scale
    /\ models' = [models EXCEPT ![m].transform = t]
    /\ UNCHANGED <<fvars, hvars, ovars, svars, panicked, meshes, bvars, materials, uniforms, uhist, synced_transform>>

\* ResourceManager::update_model_transforms: every model's transform uniform
\* gets the matrix of the live transform, through update_uniform_buffer
UpdateModelTransformsSkipped(us, ms) == us

UpdateModelTransforms(us, ms) ==
    [h \in DOMAIN us |->
        IF \E m \in DOMAIN ms : ms[m].transform_uniform_handle = h
        THEN LET m == CHOOSE m \in DOMAIN ms : ms[m].transform_uniform_handle = h
             IN  UpdateUniform(us[h], TransformUniformNew(ms[m].transform))
        ELSE us[h]]

\* ResourceManager::update_materials
UpdateMaterials(mats, us) == [m \in DOMAIN mats |-> MaterialUpdate(mats[m], us)]

\* the per-frame maintenance of Renderer::run (RedrawRequested):
\* update_model_transforms, then update_materials
FrameSync ==
    /\ ~panicked
    /\ LET us == UpdateModelTransforms(uniforms, models)
       IN  /\ uniforms' = us
           /\ IF \E m \in DOMAIN materials : MaterialUpdateFails(materials[m], us)
              THEN panicked' = TRUE /\ UNCHANGED materials
              ELSE materials' = UpdateMaterials(materials, us) /\ UNCHANGED panicked
    /\ uhist' = [h \in DOMAIN uhist |-> [uhist[h] EXCEPT !.synced = TRUE]]
    /\ synced_transform' = [m \in DOMAIN models |-> models[m].transform]
    /\ UNCHANGED <<fvars, hvars, ovars, svars, meshes, bvars, models>>

\* ResourceManager::load_texture (of a readable image file)
LoadTexture ==
    /\ ~panicked
    /\ Cardinality(DOMAIN textures) < MaxTextures
    /\ LET h == NewHandle("texture", textures)
       IN  textures' = (h :> [view |-> <<"TextureView", h>>, sampler |-> <<"Sampler", h>>])
                           @@ textures
    /\ hrc' = Created(hrc, NewHandle("texture", textures))
    /\ hext' = (NewHandle("texture", textures) :> 1) @@ hext
    /\ UNCHANGED <<fvars, hvars, panicked, meshes, bvars, materials, models, uniforms, uhist,
                   synced_transform, shaders, pipelines, gen_creates, plog, mesh_path>>

\* ResourceManager::load_shader -> ShaderManager::create_shader
LoadShader(src) ==
    /\ ~panicked
    /\ Cardinality(DOMAIN shaders) < MaxShaders
    /\ IF ReflectPanics(src)
       THEN panicked' = TRUE /\ UNCHANGED <<shaders, ovars>>
       ELSE /\ shaders' = (NewHandle("shader", shaders) :> ShaderNew(src)) @@ shaders
            /\ hrc' = Created(hrc, NewHandle("shader", shaders))
            /\ hext' = (NewHandle("shader", shaders) :> 1) @@ hext
            /\ UNCHANGED panicked
    /\ UNCHANGED <<fvars, hvars, meshes, bvars, materials, models, uniforms, uhist,
                   synced_transform, textures, pipelines, gen_creates, plog, mesh_path>>

\* ResourceManager::assign_texture_to_material
AssignTexture(m, h, name) ==
    /\ ~panicked
    /\ m \in DOMAIN materials
    /\ materials' = [materials EXCEPT ![m] = AddTexture(@, name, h)]
    /\ hrc' = IF name \in DOMAIN materials[m].textures
              THEN Dropped(Cloned(hrc, h), materials[m].textures[name])
              ELSE Cloned(hrc, h)
    /\ UNCHANGED <<fvars, hvars, svars, hext, panicked, meshes, bvars, models, uniforms, uhist, synced_transform>>

\* ResourceManager::assign_uniform_to_material
AssignUniform(m, h, name) ==
    /\ ~panicked
    /\ m \in DOMAIN materials
    /\ materials' = [materials EXCEPT ![m] = AddUniform(@, name, h)]
    /\ hrc' = IF name \in DOMAIN materials[m].uniforms
              THEN Dropped(Cloned(hrc, h), materials[m].uniforms[name])
              ELSE Cloned(hrc, h)
    /\ UNCHANGED <<fvars, hvars, svars, hext, panicked, meshes, bvars, models, uniforms, uhist, synced_transform>>

\* ResourceManager::assign_shader_to_material: get_shader_bindings unwraps the
\* lookup of the shader, then Material::set_shader
AssignShader(m, h) ==
    /\ ~panicked
    /\ m \in DOMAIN materials
    /\ IF h \in DOMAIN shaders
       THEN /\ materials' = [materials EXCEPT ![m] = SetShader(@, h, shaders[h].binds)]
            /\ hrc' = IF materials[m].shader_handle # None
                      THEN Dropped(Cloned(hrc, h), materials[m].shader_handle[1])
                      ELSE Cloned(hrc, h)
            /\ UNCHANGED panicked
       ELSE panicked' = TRUE /\ UNCHANGED <<materials, hrc>>
    /\ UNCHANGED <<fvars, hvars, svars, hext, meshes, bvars, models, uniforms, uhist, synced_transform>>

\* Material::generate_bind_groups: the outcomes of one call on mat, each with
\* the material as the call leaves it, whether it panicked and the number of
\* GPU objects it created
GenOutcomes(mat) ==
    IF GenSkips(mat)
    THEN {[mat |-> mat, panicked |-> FALSE, creates |-> 0]}
    ELSE IF mat.shader_bindings = None
    THEN {[mat |-> mat, panicked |-> TRUE, creates |-> 0]}
    ELSE IF FirstPassFails(mat, uniforms)
    THEN {[mat |-> PanickedInFirstPass(mat, uniforms, done), panicked |-> TRUE,
           creates |-> BufferCreates * Cardinality(done)] :
             done \in SUBSET {n \in NamesOfType(mat, "Uniform") :
                                 UniformResolves(mat, uniforms, n)}}
    ELSE IF SecondPassFails(mat, textures)
    THEN {[mat |-> PanickedInSecondPass(mat, uniforms), panicked |-> TRUE,
           creates |-> BufferCreates * Cardinality(NamesOfType(mat, "Uniform"))]}
    ELSE {[mat |-> InsertBindGroups(FirstPass(mat, uniforms, NamesOfType(mat, "Uniform")),
                                    shaders[mat.shader_handle[1]]),
           panicked |-> FALSE, creates |-> GenCreates(mat)]}

\* Material::generate_bind_groups on material m, as Renderer::render calls it
GenerateBindGroups(m) ==
    /\ ~panicked
    /\ m \in DOMAIN materials
    /\ \E o \in GenOutcomes(materials[m]) :
          /\ materials' = [materials EXCEPT ![m] = o.mat]
          /\ panicked' = o.panicked
          /\ gen_creates' = o.creates
    /\ UNCHANGED <<fvars, hvars, ovars, meshes, bvars, models, uniforms, uhist, synced_transform,
                   textures, shaders, pipelines, plog, mesh_path>>

\* the orders in which a HashMap may yield the keys of the set S
Orders(S) ==
    {f \in [1..Cardinality(S) -> S] : \A i, j \in 1..Cardinality(S) : f[i] = f[j] => i = j}

\* a mutation of GenerateAll: generate_bind_groups works on copies of the
\* materials and the stored ones stay as they are
GenerateAllOnCopies(mats, order, i, creates) ==
    {[materials |-> mats, panicked |-> FALSE, creates |-> creates]}

\* Renderer::render, the loop "Generate bind groups for all the materials":
\* the outcomes of generate_bind_groups on order[i], order[i + 1], ..; a
\* panic ends the loop
RECURSIVE GenerateAll(_, _, _, _)
GenerateAll(mats, order, i, creates) ==
    IF i > Len(order)
    THEN {[materials |-> mats, panicked |-> FALSE, creates |-> creates]}
    ELSE UNION {IF o.panicked
                THEN {[materials |-> [mats EXCEPT ![order[i]] = o.mat],
                       panicked |-> TRUE, creates |-> o.creates]}
                ELSE GenerateAll([mats EXCEPT ![order[i]] = o.mat], order, i + 1, o.creates) :
                  o \in GenOutcomes(mats[order[i]])}

\* Renderer::render, the loop linking materials to pipelines:
\* material.get_shader() unwraps the shader handle of every material
LinkPanics(mats) ==
    DOMAIN pipelines # {} /\ \E m \in DOMAIN mats : GetShader(mats[m]) = None

\* Renderer::render, the draw loop: entered for a model whose material has
\* the shader of a registered pipeline
DrawLoopEntered(mats) ==
    \E p \in DOMAIN pipelines, m \in DOMAIN models :
        /\ models[m].material \in DOMAIN mats
        /\ GetShader(mats[models[m].material]) = Some(pipelines[p].shader)

\* Renderer::render with nothing to draw: bind groups for all the materials
\* (in the order the material map yields its keys), the linking loops, then
\* the frame of the surface (get_current_texture panics when frame_ok is
\* FALSE), an empty render pass, submit and present
Render(order, frame_ok) ==
    /\ ~panicked
    /\ order \in Orders(DOMAIN materials)
    /\ \E o \in GenerateAll(materials, order, 1, gen_creates) :
          /\ materials' = o.materials
          /\ gen_creates' = o.creates
          /\ ~o.panicked => ~DrawLoopEntered(o.materials)
          /\ panicked' = (o.panicked \/ LinkPanics(o.materials) \/ ~frame_ok)
    /\ UNCHANGED <<fvars, hvars, ovars, meshes, bvars, models, uniforms, uhist, synced_transform,
                   textures, shaders, pipelines, plog, mesh_path>>

(***************************************************************************)
(* Renderer::run, the handler of WindowEvent::RedrawRequested, step by     *)
(* step: the caller's render_func, the maintenance block, Renderer::render *)
(***************************************************************************)

\* the steps of one frame, as the handler lists them
FrameSteps == <<"render_func", "update_model_transforms", "update_materials", "render">>

\* a mutation of After: update_materials is called before update_model_transforms
AfterMaterialsFirst(p) ==
    CASE p = "idle" -> "render_func"
      [] p = "render_func" -> "render_func_locked"
      [] p = "render_func_locked" -> "sync"
      [] p = "sync" -> "update_materials"
      [] p = "update_materials" -> "update_model_transforms"
      [] p = "update_model_transforms" -> "render"
      [] p = "render" -> "generate"
      [] p = "generate" -> "draw"
      [] p = "draw" -> "idle"

\* the position that follows position p in the handler: render_func takes
\* the guard and runs; the block takes the guard, calls
\* update_model_transforms and update_materials; render takes the guard,
\* generates the bind groups and draws; then the loop waits for an event
After(p) ==
    CASE p = "idle" -> "render_func"
      [] p = "render_func" -> "render_func_locked"
      [] p = "render_func_locked" -> "sync"
      [] p = "sync" -> "update_model_transforms"
      [] p = "update_model_transforms" -> "update_materials"
      [] p = "update_materials" -> "render"
      [] p = "render" -> "generate"
      [] p = "generate" -> "draw"
      [] p = "draw" -> "idle"

\* Mutex::lock succeeds at once when no guard is live
LockFree(l) == l = <<>>

\* MutHandle::get: self.inner.lock().unwrap(), the guard goes to holder who
Acquire(l, who) == Append(l, who)

\* a mutation of Release: the guard outlives its scope
ReleaseKeepsGuard(l, who) == l

\* the drop of the MutexGuard of holder who, at the end of its scope (or
\* while a panic unwinds it)
Release(l, who) == SelectSeq(l, LAMBDA x : x # who)

\* the event loop delivers RedrawRequested
RedrawRequested ==
    /\ ~panicked
    /\ pc = "idle"
    /\ pc' = After(pc)
    /\ steps' = <<>>
    /\ bind_calls' = {}
    /\ frame_size' = None
    /\ UNCHANGED <<lock, threads, wvars, hvars, panicked, mvars>>

\* MutHandle::get at position p of the handler: the thread gets the guard,
\* or blocks for ever on a guard it holds itself
LockAt(p) ==
    /\ ~panicked
    /\ pc = p
    /\ IF LockFree(lock)
       THEN lock' = Acquire(lock, p) /\ pc' = After(p)
       ELSE pc' = "blocked" /\ UNCHANGED lock
    /\ UNCHANGED <<steps, bind_calls, threads, wvars, frame_size, hvars, panicked, mvars>>

\* the caller's render_func: under the guard, it moves a model away from
\* the origin (as update_renderer of the example changes the live transform),
\* or assigns the texture of a material again (assign_texture_to_material,
\* which marks the material dirty), or changes nothing; the guard is dropped
\* when it returns
RenderFunc ==
    /\ ~panicked
    /\ pc = "render_func_locked"
    /\ \/ /\ \E m \in DOMAIN models, t \in Transforms :
                /\ models[m].transform = [position |-> 0, scale |-> 1]
                /\ t.position # 0
                /\ models' = [models EXCEPT ![m].transform = t]
          /\ UNCHANGED materials
       \/ /\ \E m \in DOMAIN materials :
                /\ "diffuse" \in DOMAIN materials[m].textures
                /\ ~materials[m].needs_regen
                /\ materials' = [materials EXCEPT ![m] =
                                    AddTexture(@, "diffuse", @.textures["diffuse"])]
          /\ UNCHANGED models
       \/ UNCHANGED <<models, materials>>
    /\ lock' = Release(lock, "render_func")
    /\ steps' = Append(steps, "render_func")
    /\ pc' = After(pc)
    /\ UNCHANGED <<bind_calls, threads, wvars, frame_size, hvars, panicked, meshes, bvars, uniforms,
                   uhist, synced_transform, svars, ovars>>

\* rm.update_model_transforms() of the maintenance block
FrameUpdateModelTransforms ==
    /\ ~panicked
    /\ pc = "update_model_transforms"
    /\ uniforms' = UpdateModelTransforms(uniforms, models)
    /\ uhist' = [h \in DOMAIN uhist |-> [uhist[h] EXCEPT !.synced = TRUE]]
    /\ synced_transform' = [m \in DOMAIN models |-> models[m].transform]
    /\ steps' = Append(steps, "update_model_transforms")
    /\ pc' = After(pc)
    /\ lock' = IF After(pc) = "render" THEN Release(lock, "sync") ELSE lock
    /\ UNCHANGED <<bind_calls, threads, wvars, frame_size, hvars, panicked, meshes, bvars, materials, models,
                   svars, ovars>>

\* rm.update_materials() of the maintenance block; the guard is dropped at
\* the end of the block
FrameUpdateMaterials ==
    /\ ~panicked
    /\ pc = "update_materials"
    /\ IF \E m \in DOMAIN materials : MaterialUpdateFails(materials[m], uniforms)
       THEN panicked' = TRUE /\ UNCHANGED <<materials, steps>>
       ELSE /\ materials' = UpdateMaterials(materials, uniforms)
            /\ steps' = Append(steps, "update_materials")
            /\ UNCHANGED panicked
    /\ pc' = After(pc)
    /\ lock' = IF After(pc) = "render" \/ panicked' THEN Release(lock, "sync") ELSE lock
    /\ UNCHANGED <<bind_calls, threads, wvars, frame_size, hvars, meshes, bvars, models, uniforms, uhist,
                   synced_transform, svars, ovars>>

\* Renderer::render, the loop "Generate bind groups for all the materials",
\* in the order the material map yields its keys
RenderGenerate(order) ==
    /\ ~panicked
    /\ pc = "generate"
    /\ order \in Orders(DOMAIN materials)
    /\ \E o \in GenerateAll(materials, order, 1, gen_creates) :
          /\ materials' = o.materials
          /\ gen_creates' = o.creates
          /\ panicked' = o.panicked
          /\ lock' = IF o.panicked THEN Release(lock, "render") ELSE lock
    /\ pc' = After(pc)
    /\ UNCHANGED <<steps, bind_calls, threads, wvars, frame_size, hvars, ovars, meshes, bvars, models, uniforms,
                   uhist, synced_transform, textures, shaders, pipelines, plog, mesh_path>>

\* a mutation of Draws: every material is linked to every pipeline, whatever
\* its shader
DrawsAnyShader(mats) ==
    {d \in (DOMAIN pipelines) \X (DOMAIN mats) \X (DOMAIN models) :
        models[d[3]].material = d[2]}

\* Renderer::render, the linking loops: the draws of the frame are the
\* (pipeline, material, model) with material.get_shader() == pipeline.get_shader()
\* and model.get_material() the material
Draws(mats) ==
    {d \in (DOMAIN pipelines) \X (DOMAIN mats) \X (DOMAIN models) :
        /\ GetShader(mats[d[2]]) = Some(pipelines[d[1]].shader)
        /\ models[d[3]].material = d[2]}

\* Material::set_uniform(name, handle, resource_manager), which the draw loop
\* calls before bind_material: the named uniform becomes handle and its copy
\* buffer, when there is one, receives the uniform's bytes; the bind groups
\* keep their buffers and stay as they are
SetUniform(mat, name, h, us) ==
    [mat EXCEPT !.uniforms = (name :> h) @@ @,
                !.bind_group_buffers =
                    [n \in DOMAIN @ |->
                        IF n = name /\ h \in DOMAIN us
                        THEN CopyBuffer(@[n], us[h].gpu)
                        ELSE @[n]]]

\* Renderer::render, the draw loop over the draws seq[i], seq[i + 1], ..:
\* set_uniform("transform", ..) on the stored material, then bind_material,
\* which sets every cached bind group of the material as it is
RECURSIVE DrawAll(_, _, _, _)
DrawAll(mats, seq, i, calls) ==
    IF i > Len(seq)
    THEN [materials |-> mats, bind_calls |-> calls]
    ELSE LET m == seq[i][2]
             mat == SetUniform(mats[m], "transform",
                               models[seq[i][3]].transform_uniform_handle, uniforms)
         IN  DrawAll([mats EXCEPT ![m] = mat], seq, i + 1,
                     calls \cup {[pipeline |-> seq[i][1], material |-> m,
                                  model |-> seq[i][3],
                                  needs_regen |-> mat.needs_regen,
                                  shader |-> GetShader(mat),
                                  bind_groups |-> mat.bind_groups]})

\* surface.get_current_texture(): the frame has the size the surface was
\* configured with last
CurrentTexture(sf) == sf.configured

\* Renderer::render after the generate pass: the linking loops, the frame of
\* the surface (get_current_texture panics when frame_ok is FALSE), the draw
\* loop, submit and present; the guard is dropped when render returns
RenderDraw(frame_ok) ==
    /\ ~panicked
    /\ pc = "draw"
    /\ IF LinkPanics(materials) \/ ~frame_ok
       THEN panicked' = TRUE /\ UNCHANGED <<materials, steps, bind_calls, frame_size>>
       ELSE /\ \E seq \in Orders(Draws(materials)) :
                  LET o == DrawAll(materials, seq, 1, {})
                  IN  materials' = o.materials /\ bind_calls' = o.bind_calls
            /\ frame_size' = Some(CurrentTexture(surface))
            /\ steps' = Append(steps, "render")
            /\ UNCHANGED panicked
    /\ lock' = Release(lock, "render")
    /\ pc' = After(pc)
    /\ UNCHANGED <<threads, wvars, hvars, ovars, meshes, bvars, models, uniforms, uhist,
                   synced_transform, svars>>

\* ResourceManager::create_pipeline -> PipelineManager::create_or_get_pipeline
\* (and PipelineManager::create_pipeline when no registered uuid matches)
CreatePipeline(mesh, material) ==
    /\ ~panicked
    /\ mesh \in DOMAIN meshes
    /\ material \in DOMAIN materials
    /\ UNCHANGED <<fvars, hvars, meshes, bvars, materials, models, uniforms, uhist, synced_transform,
                   textures, shaders, gen_creates, mesh_path>>
    /\ IF GetShader(materials[material]) = None
       THEN panicked' = TRUE /\ UNCHANGED <<pipelines, plog, ovars>>
       ELSE LET sh == GetShader(materials[material])[1]
                layout == meshes[mesh].layout
                settings == BuildSettings(layout,
                                SortedLayouts(shaders[sh].bind_group_layouts), sh)
                log(h) == [first |-> IF layout \in DOMAIN plog.first THEN plog.first
                                     ELSE (layout :> [mesh |-> mesh, shader |-> sh,
                                                      handle |-> h]) @@ plog.first,
                           last |-> Some([mesh |-> mesh, shader |-> sh, handle |-> h])]
                hit == Matching(pipelines, settings)
            IN  /\ IF hit # {}
                   THEN \E h \in hit :
                            /\ hext[h] < MaxHeld
                            /\ plog' = log(h)
                            /\ hrc' = Cloned(hrc, h)
                            /\ hext' = [hext EXCEPT ![h] = @ + 1]
                            /\ UNCHANGED pipelines
                   ELSE LET h == NewHandle("pipeline", pipelines)
                        IN  /\ pipelines' = (h :> PipelineNew(settings, sh)) @@ pipelines
                            /\ plog' = log(h)
                            /\ hrc' = Cloned(Created(hrc, h), sh)
                            /\ hext' = (h :> 1) @@ hext
                /\ UNCHANGED panicked

\* ResourceManager::get_model_transform_uniform_handle: a clone for the caller
GetModelTransformUniformHandle(m) ==
    /\ ~panicked
    /\ m \in DOMAIN models
    /\ LET th == models[m].transform_uniform_handle
       IN  /\ hext[th] < MaxHeld
           /\ hrc' = Cloned(hrc, th)
           /\ hext' = [hext EXCEPT ![th] = @ + 1]
    /\ UNCHANGED <<fvars, hvars, svars, panicked, meshes, bvars, materials, models, uniforms, uhist,
                   synced_transform>>

\* the caller clones one of the handles it holds
CloneExternal(h) ==
    /\ ~panicked
    /\ h \in DOMAIN hext
    /\ hext[h] > 0
    /\ hext[h] < MaxHeld
    /\ hrc' = Cloned(hrc, h)
    /\ hext' = [hext EXCEPT ![h] = @ + 1]
    /\ UNCHANGED <<fvars, hvars, svars, panicked, meshes, bvars, materials, models, uniforms, uhist,
                   synced_transform>>

\* the caller drops one of the handles it holds
DropExternal(h) ==
    /\ ~panicked
    /\ h \in DOMAIN hext
    /\ hext[h] > 0
    /\ hrc' = Dropped(hrc, h)
    /\ hext' = [hext EXCEPT ![h] = @ - 1]
    /\ UNCHANGED <<fvars, hvars, svars, panicked, meshes, bvars, materials, models, uniforms, uhist,
                   synced_transform>>

NextHandle ==
    /\ \/ \E a \in Allocs : HandleNew(a)
       \/ \E a \in Allocs : HandleClone(a)
       \/ \E a \in Allocs : HandleDrop(a)
    /\ UNCHANGED <<mvars, fvars>>

SpecHandle == Init /\ [][NextHandle]_vars

\* clone as a function of the count it observes.  Each block has one handle;
\* the handle of a live block observes the count of the handles, at least 1;
\* a handle kept past the free of its block (which safe code cannot make)
\* reads freed memory and may observe any count, 0 included
InitClone ==
    /\ block \in [Allocs -> {"live", "freed"}]
    /\ rc \in [Allocs -> 0..MaxClones]
    /\ \A a \in Allocs : block[a] = "live" => rc[a] = 1
    /\ held = [a \in Allocs |-> 1]
    /\ clones = [a \in Allocs |-> 0]
    /\ drops = [a \in Allocs |-> 0]
    /\ frees = [a \in Allocs |-> IF block[a] = "freed" THEN 1 ELSE 0]
    /\ addr = [a \in Allocs |-> a]
    /\ uuid = [a \in Allocs |-> 0]
    /\ rtype = [a \in Allocs |-> "Mesh"]
    /\ panicked = FALSE
    /\ ManagerInit
    /\ FrameInit

NextClone ==
    /\ \E a \in Allocs : HandleClone(a)
    /\ UNCHANGED <<mvars, fvars>>

SpecClone == InitClone /\ [][NextClone]_vars

(***************************************************************************)
(* threads sharing the handles of one allocation: each atomic operation of *)
(* Clone and Drop for ResourceHandle is one step of the thread             *)
(***************************************************************************)

Threads == 1..MaxThreads

\* the allocation the threads share
Shared == 1

AtPc(p) == {t \in Threads : threads[t].pc = p}

\* the handle was created, cloned once for every further thread, and each
\* thread was given one of the handles
InitThreads ==
    /\ block = [a \in Allocs |-> IF a = Shared THEN "live" ELSE "unallocated"]
    /\ rc = [a \in Allocs |-> IF a = Shared THEN MaxThreads ELSE 0]
    /\ held = [a \in Allocs |-> IF a = Shared THEN MaxThreads ELSE 0]
    /\ clones = [a \in Allocs |-> 0]
    /\ drops = [a \in Allocs |-> 0]
    /\ frees = [a \in Allocs |-> 0]
    /\ addr = [a \in Allocs |-> a]
    /\ uuid = [a \in Allocs |-> 0]
    /\ rtype = [a \in Allocs |-> "Mesh"]
    /\ panicked = FALSE
    /\ ManagerInit
    /\ pc = "idle"
    /\ lock = <<>>
    /\ steps = <<>>
    /\ bind_calls = {}
    /\ threads = [t \in Threads |-> [pc |-> "idle", owned |-> 1, observed |-> 0]]
    /\ SurfaceInit

\* clone, first step: rc.fetch_add(1, Relaxed) on a handle the thread owns;
\* panics when the count it read was 0
ThreadCloneFetchAdd(t) ==
    /\ ~panicked
    /\ threads[t].pc = "idle"
    /\ threads[t].owned > 0
    /\ clones[Shared] + Cardinality(AtPc("cloned")) < MaxClones
    /\ rc' = [rc EXCEPT ![Shared] = CloneStore(@)]
    /\ panicked' = ClonePanics(rc[Shared])
    /\ threads' = [threads EXCEPT ![t].pc = "cloned", ![t].observed = rc[Shared]]
    /\ UNCHANGED <<block, held, clones, drops, frees, addr, uuid, rtype,
                   pc, lock, steps, bind_calls, wvars, frame_size, mvars>>

\* clone, second step: the new handle, Self{ptr, resource_type}, is returned
ThreadCloneReturn(t) ==
    /\ ~panicked
    /\ threads[t].pc = "cloned"
    /\ held' = [held EXCEPT ![Shared] = @ + 1]
    /\ clones' = [clones EXCEPT ![Shared] = @ + 1]
    /\ threads' = [threads EXCEPT ![t].pc = "idle", ![t].owned = @ + 1]
    /\ UNCHANGED <<rc, block, drops, frees, addr, uuid, rtype, panicked,
                   pc, lock, steps, bind_calls, wvars, frame_size, mvars>>

\* drop, first step: rc.fetch_sub(1, Release) on a handle the thread owns,
\* which is gone from here on
ThreadDropFetchSub(t) ==
    /\ ~panicked
    /\ threads[t].pc = "idle"
    /\ threads[t].owned > 0
    /\ rc' = [rc EXCEPT ![Shared] = DropStore(@)]
    /\ held' = [held EXCEPT ![Shared] = @ - 1]
    /\ threads' = [threads EXCEPT ![t].owned = @ - 1, ![t].observed = rc[Shared],
                                  ![t].pc = IF DropFrees(rc[Shared]) THEN "freeing"
                                            ELSE "dropped"]
    /\ UNCHANGED <<block, clones, drops, frees, addr, uuid, rtype, panicked,
                   pc, lock, steps, bind_calls, wvars, frame_size, mvars>>

\* drop, second step: when the count read was 1, fence(Acquire) and
\* Box::from_raw, which frees the control block; then drop returns
ThreadDropReturn(t) ==
    /\ ~panicked
    /\ threads[t].pc \in {"freeing", "dropped"}
    /\ IF threads[t].pc = "freeing"
       THEN /\ block' = [block EXCEPT ![Shared] = "freed"]
            /\ frees' = [frees EXCEPT ![Shared] = @ + 1]
       ELSE UNCHANGED <<block, frees>>
    /\ drops' = [drops EXCEPT ![Shared] = @ + 1]
    /\ threads' = [threads EXCEPT ![t].pc = "idle"]
    /\ UNCHANGED <<rc, held, clones, addr, uuid, rtype, panicked,
                   pc, lock, steps, bind_calls, wvars, frame_size, mvars>>

NextThreads ==
    \/ \E t \in Threads : ThreadCloneFetchAdd(t)
    \/ \E t \in Threads : ThreadCloneReturn(t)
    \/ \E t \in Threads : ThreadDropFetchSub(t)
    \/ \E t \in Threads : ThreadDropReturn(t)

SpecThreads == InitThreads /\ [][NextThreads]_vars

\* the uniform and model operations; one mesh and one material are enough to
\* create models from
NextUniform ==
    \/ DOMAIN meshes = {} /\ \E readable \in BOOLEAN : LoadMesh("cube.obj", readable)
    \/ DOMAIN materials = {} /\ CreateMaterial
    \/ \E d \in UserData : CreateUniformBuffer(d)
    \/ \E h \in DOMAIN uniforms, d \in UserData : UpdateUniformBuffer(h, d)
    \/ \E mesh \in DOMAIN meshes, material \in DOMAIN materials, t \in Transforms :
          Cardinality(DOMAIN models) < MaxModels /\ CreateModel(mesh, material, t)
    \/ \E m \in DOMAIN models, t \in Transforms : SetModelTransform(m, t)
    \/ FrameSync

SpecUniform == Init /\ [][NextUniform]_vars

\* the material operations, on one material
NextMaterial ==
    \/ LoadTexture
    \/ \E d \in UserData : CreateUniformBuffer(d)
    \/ \E src \in ShaderSources : LoadShader(src)
    \/ DOMAIN materials = {} /\ CreateMaterial
    \/ \E m \in DOMAIN materials, h \in DOMAIN textures, n \in TextureNames :
          AssignTexture(m, h, n)
    \/ \E m \in DOMAIN materials, h \in DOMAIN uniforms, n \in UniformNames :
          AssignUniform(m, h, n)
    \/ \E m \in DOMAIN materials, h \in DOMAIN shaders : AssignShader(m, h)
    \/ \E m \in DOMAIN materials : GenerateBindGroups(m)

SpecMaterial == Init /\ [][NextMaterial]_vars

\* the pipeline cache and what create_pipeline reads
NextPipeline ==
    \/ \E readable \in BOOLEAN : LoadMesh("cube.obj", readable)
    \/ \E src \in ShaderSources : LoadShader(src)
    \/ CreateMaterial
    \/ \E m \in DOMAIN materials, h \in DOMAIN shaders : AssignShader(m, h)
    \/ \E mesh \in DOMAIN meshes, material \in DOMAIN materials :
          CreatePipeline(mesh, material)

SpecPipeline == Init /\ [][NextPipeline]_vars

\* the assignment of a shader to a material, with any handle the manager has
\* returned as the shader handle
NextShaderAssign ==
    \/ LoadTexture
    \/ \E src \in ShaderSources : LoadShader(src)
    \/ CreateMaterial
    \/ \E m \in DOMAIN materials, h \in DOMAIN shaders \cup DOMAIN textures \cup DOMAIN materials :
          AssignShader(m, h)

SpecShaderAssign == Init /\ [][NextShaderAssign]_vars

\* the creation operations, on one resource of each category, and the caller
\* cloning and dropping the handles it was given
NextOwnership ==
    \/ DOMAIN meshes = {} /\ \E readable \in BOOLEAN : LoadMesh("cube.obj", readable)
    \/ DOMAIN materials = {} /\ CreateMaterial
    \/ DOMAIN shaders = {} /\ LoadShader(SrcDiffuse)
    \/ \E m \in DOMAIN materials, h \in DOMAIN shaders :
          materials[m].shader_handle = None /\ AssignShader(m, h)
    \/ \E mesh \in DOMAIN meshes, material \in DOMAIN materials :
          /\ Cardinality(DOMAIN models) < MaxModels
          /\ CreateModel(mesh, material, [position |-> 0, scale |-> 1])
    \/ \E mesh \in DOMAIN meshes, material \in DOMAIN materials :
          materials[material].shader_handle # None /\ CreatePipeline(mesh, material)
    \/ \E m \in DOMAIN models : GetModelTransformUniformHandle(m)
    \/ \E h \in DOMAIN hext : CloneExternal(h)
    \/ \E h \in DOMAIN hext : DropExternal(h)

SpecOwnership == Init /\ [][NextOwnership]_vars

\* the models of one mesh and one material, as many as there is room for
\* uniforms, next to the caller's own uniforms
NextModel ==
    \/ DOMAIN meshes = {} /\ \E readable \in BOOLEAN : LoadMesh("cube.obj", readable)
    \/ DOMAIN materials = {} /\ CreateMaterial
    \/ \E d \in UserData : CreateUniformBuffer(d)
    \/ \E mesh \in DOMAIN meshes, material \in DOMAIN materials, t \in Transforms :
          CreateModel(mesh, material, t)
    \/ \E m \in DOMAIN models, t \in Transforms : SetModelTransform(m, t)

SpecModel == Init /\ [][NextModel]_vars

\* frames rendered over materials that have or have not been given the
\* diffuse shader and a texture
NextRender ==
    \/ LoadTexture
    \/ DOMAIN shaders = {} /\ LoadShader(SrcDiffuse)
    \/ CreateMaterial
    \/ \E m \in DOMAIN materials, h \in DOMAIN textures : AssignTexture(m, h, "diffuse")
    \/ \E m \in DOMAIN materials, h \in DOMAIN shaders : AssignShader(m, h)
    \/ \E m \in DOMAIN materials : GenerateBindGroups(m)
    \/ \E order \in Orders(DOMAIN materials), frame_ok \in BOOLEAN : Render(order, frame_ok)

SpecRender == Init /\ [][NextRender]_vars

\* the operations of UniformBuffer, called one by one in any order, next to
\* update_uniform_buffer, which calls set_data and update in a row
NextUniformBuffer ==
    \/ \E d \in UserData : CreateUniformBuffer(d)
    \/ \E h \in DOMAIN uniforms, d \in UserData : UpdateUniformBuffer(h, d)
    \/ \E h \in DOMAIN uniforms, d \in UserData : UniformSetData(h, d)
    \/ \E h \in DOMAIN uniforms : UniformUpdate(h)

SpecUniformBuffer == Init /\ [][NextUniformBuffer]_vars

\* load_shader on sources of every kind of declaration
NextReflect ==
    \E src \in ReflectSources : LoadShader(src)

SpecReflect == Init /\ [][NextReflect]_vars

\* load_mesh on every path the application may pass, readable or not, next to
\* create_material, and the caller cloning and dropping the handles it was given
NextMeshLoad ==
    \/ \E path \in MeshPaths, readable \in BOOLEAN : LoadMesh(path, readable)
    \/ CreateMaterial
    \/ \E h \in DOMAIN hext : CloneExternal(h)
    \/ \E h \in DOMAIN hext : DropExternal(h)

SpecMeshLoad == Init /\ [][NextMeshLoad]_vars

\* frames: the application sets up one mesh, one texture, shaders of the
\* diffuse source, materials, one model for a material and one pipeline, then
\* the event loop runs and the handler of RedrawRequested runs step by step
\* the application's setup runs before Renderer::run enters the event loop
BeforeRun == pc = "idle" /\ steps = <<>>

NextFrame ==
    \/ BeforeRun /\ DOMAIN meshes = {} /\ LoadMesh("cube.obj", TRUE)
    \/ BeforeRun /\ DOMAIN textures = {} /\ LoadTexture
    \/ BeforeRun /\ LoadShader(SrcDiffuse)
    \/ BeforeRun /\ CreateMaterial
    \/ BeforeRun /\ \E m \in DOMAIN materials, h \in DOMAIN textures :
                        /\ "diffuse" \notin DOMAIN materials[m].textures
                        /\ AssignTexture(m, h, "diffuse")
    \/ BeforeRun /\ \E m \in DOMAIN materials, h \in DOMAIN shaders :
                        /\ materials[m].shader_handle = None
                        /\ AssignShader(m, h)
    \/ BeforeRun /\ \E mesh \in DOMAIN meshes, material \in DOMAIN materials :
                        /\ \A mo \in DOMAIN models : models[mo].material # material
                        /\ CreateModel(mesh, material, [position |-> 0, scale |-> 1])
    \/ BeforeRun /\ \E mesh \in DOMAIN meshes, material \in DOMAIN materials :
                        /\ DOMAIN pipelines = {}
                        /\ CreatePipeline(mesh, material)
    \/ RedrawRequested
    \/ LockAt("render_func")
    \/ RenderFunc
    \/ LockAt("sync")
    \/ FrameUpdateModelTransforms
    \/ FrameUpdateMaterials
    \/ LockAt("render")
    \/ \E order \in Orders(DOMAIN materials) : RenderGenerate(order)
    \/ \E frame_ok \in BOOLEAN : RenderDraw(frame_ok)

SpecFrame == Init /\ [][NextFrame]_vars

\* uniforms of two sizes assigned under the name camera to materials of the
\* camera shader, bind groups generated, payloads replaced by payloads of
\* the same size, and the per-frame maintenance
NextCopy ==
    \/ \E d \in UserData \cup {ShortData} : CreateUniformBuffer(d)
    \/ \E h \in DOMAIN uniforms, d \in UserData \cup {ShortData} :
          /\ Len(AsBytes(d)) = Len(uniforms[h].gpu)
          /\ AsBytes(d) # uniforms[h].gpu
          /\ UpdateUniformBuffer(h, d)
    \/ DOMAIN shaders = {} /\ LoadShader(SrcCamera)
    \/ CreateMaterial
    \/ \E m \in DOMAIN materials, h \in DOMAIN uniforms : AssignUniform(m, h, "camera")
    \/ \E m \in DOMAIN materials, h \in DOMAIN shaders :
          materials[m].shader_handle = None /\ AssignShader(m, h)
    \/ \E m \in DOMAIN materials : GenerateBindGroups(m)
    \/ FrameSync

SpecCopy == Init /\ [][NextCopy]_vars

(***************************************************************************)
(* C1: for every control block created by new (count 1), while it has not  *)
(* been freed the count equals 1 + clones - drops, equals the number of    *)
(* live handles and is at least 1; the block is freed exactly when a drop  *)
(* takes the count from 1 to 0: never while a handle is alive, exactly     *)
(* once, and always once no handle is left.                                *)
(***************************************************************************)
C1_RefcountAndFree ==
    \A a \in Allocs :
        /\ block[a] = "live" =>
              /\ rc[a] = InitialCount + clones[a] - drops[a]
              /\ rc[a] = held[a]
              /\ rc[a] >= 1
              /\ frees[a] = 0
        /\ block[a] = "freed" =>
              /\ rc[a] = 0
              /\ held[a] = 0
              /\ frees[a] = 1
              /\ drops[a] = clones[a] + 1
        /\ block[a] = "unallocated" => held[a] = 0 /\ frees[a] = 0
        /\ held[a] > 0 => block[a] = "live"

\* a block that was cloned twice and then freed by its last drop
C1_Witness ==
    \E a \in Allocs : block[a] = "freed" /\ clones[a] >= 2 /\ drops[a] = clones[a] + 1

\* the model whose transform uniform is h
ModelOf(h) == CHOOSE m \in DOMAIN models : models[m].transform_uniform_handle = h

\* the caller has called update_uniform_buffer(h, _), and a frame sync ran since
UpdatedAndSynced(h) == uhist[h].last # None /\ uhist[h].synced

\* the caller has called update_uniform_buffer(h, _), and no frame sync ran since
UpdatedNotSynced(h) == uhist[h].last # None /\ ~uhist[h].synced

\* generation on this material would run to its end: a shader is set and
\* every binding of its table resolves
Generates(mat) ==
    /\ mat.shader_bindings # None
    /\ ~FirstPassFails(mat, uniforms)
    /\ ~SecondPassFails(mat, textures)

\* the cached bind groups are exactly the ones generation would produce
BindGroupsValid(mat) ==
    /\ Generates(mat)
    /\ mat.bind_groups = GeneratedBindGroups(mat, shaders[mat.shader_handle[1]])

(***************************************************************************)
(* C2 as stated: in every reachable state, the dirty flag of a material is *)
(* clear if and only if its cached bind groups are exactly the ones        *)
(* generation would produce from its current shader bindings and its       *)
(* current texture and uniform assignments.                                *)
(***************************************************************************)
C2_Original ==
    \A m \in DOMAIN materials :
        ~materials[m].needs_regen <=> BindGroupsValid(materials[m])

\* the binding table holds exactly one binding, a Texture named "diffuse"
OnlyDiffuseTexture(bindings) ==
    DOMAIN bindings = {"diffuse"} /\ bindings["diffuse"].binding_type = "Texture"

(***************************************************************************)
(* C6 as stated: for a material whose shader reflects exactly one texture  *)
(* binding, named "diffuse", a generate_bind_groups call fails fatally     *)
(* while no texture is assigned under "diffuse"; once one is assigned the  *)
(* call succeeds and leaves the material with exactly one bind group, at   *)
(* the group index of that binding.                                        *)
(***************************************************************************)
C6_Original ==
    [][\A m \in DOMAIN materials :
          LET mat == materials[m]
          IN  (/\ mat.shader_bindings # None
               /\ OnlyDiffuseTexture(mat.shader_bindings[1])
               /\ GenerateBindGroups(m))
              => IF "diffuse" \notin DOMAIN mat.textures
                 THEN panicked'
                 ELSE /\ ~panicked'
                      /\ DOMAIN materials'[m].bind_groups
                            = {mat.shader_bindings[1]["diffuse"].group}]_vars

\* some Uniform binding of the material's shader has no uniform assigned
\* under the same name
UniformUnassigned(mat) ==
    /\ mat.shader_bindings # None
    /\ \E n \in NamesOfType(mat, "Uniform") : n \notin DOMAIN mat.uniforms

(***************************************************************************)
(* C7: a generate_bind_groups call on a dirty material of which some       *)
(* Uniform binding has no uniform assigned under the same name ends in a   *)
(* panic, leaves the dirty flag set and leaves the bind groups as they     *)
(* were.                                                                   *)
(***************************************************************************)
C7_MissingUniformFails ==
    [][\A m \in DOMAIN materials :
          (/\ materials[m].needs_regen
           /\ UniformUnassigned(materials[m])
           /\ GenerateBindGroups(m))
          => /\ panicked'
             /\ materials'[m].needs_regen
             /\ materials'[m].bind_groups = materials[m].bind_groups]_vars

\* the process panicked on a dirty material with an unassigned Uniform
\* binding, which still holds the bind groups of an earlier generation
C7_Witness ==
    /\ panicked
    /\ \E m \in DOMAIN materials :
          /\ materials[m].needs_regen
          /\ UniformUnassigned(materials[m])
          /\ materials[m].bind_groups # <<>>

(***************************************************************************)
(* C8: a material is dirty when create_material has made it, and dirty     *)
(* after every assign_texture_to_material / assign_uniform_to_material on  *)
(* it, whatever the flag was and whether or not the name was assigned.     *)
(***************************************************************************)
C8_AssignMarksDirty ==
    [][/\ \A m \in DOMAIN materials' \ DOMAIN materials : materials'[m].needs_regen
       /\ \A m \in DOMAIN materials :
             (\/ \E h \in DOMAIN textures, n \in TextureNames : AssignTexture(m, h, n)
              \/ \E h \in DOMAIN uniforms, n \in UniformNames : AssignUniform(m, h, n))
             => materials'[m].needs_regen]_vars

\* a material holding valid bind groups for its only assignment, the texture
\* "diffuse", and dirty: the texture was assigned again after the generation
C8_Witness ==
    \E m \in DOMAIN materials :
        /\ materials[m].needs_regen
        /\ DOMAIN materials[m].textures = {"diffuse"}
        /\ DOMAIN materials[m].uniforms = {}
        /\ materials[m].bind_groups # <<>>
        /\ BindGroupsValid(materials[m])

(***************************************************************************)
(* C9: a generate_bind_groups call on a material whose dirty flag is clear *)
(* changes neither its bind groups, nor its copy buffers, nor the flag,    *)
(* creates no GPU object and does not fail.                                *)
(***************************************************************************)
C9_GenerateIdempotent ==
    [][\A m \in DOMAIN materials :
          (~materials[m].needs_regen /\ GenerateBindGroups(m))
          => /\ materials'[m] = materials[m]
             /\ gen_creates' = 0
             /\ ~panicked']_vars

\* a clean material with bind groups on which a second generate_bind_groups
\* has run: the last call created nothing
C9_Witness ==
    \E m \in DOMAIN materials :
        /\ ~materials[m].needs_regen
        /\ materials[m].bind_groups # <<>>
        /\ gen_creates = 0

(***************************************************************************)
(* C3: every create_pipeline call returns the handle that the first        *)
(* create_pipeline call with a structurally identical vertex layout        *)
(* returned, whatever the meshes, materials and shaders of the two calls.  *)
(***************************************************************************)
C3_SameLayoutSameHandle ==
    plog.last # None =>
        LET c == plog.last[1]
            layout == meshes[c.mesh].layout
        IN  /\ layout \in DOMAIN plog.first
            /\ meshes[plog.first[layout].mesh].layout = layout
            /\ c.handle = plog.first[layout].handle
            /\ c.handle \in DOMAIN pipelines

\* a second call, with another mesh and a material of another shader than
\* the first call, that returned the handle of the first call
C3_Witness ==
    /\ plog.last # None
    /\ LET c == plog.last[1]
           f == plog.first[meshes[c.mesh].layout]
       IN  /\ c.mesh # f.mesh
           /\ c.shader # f.shader
           /\ shaders[c.shader].source # shaders[f.shader].source
           /\ c.handle = f.handle

\* the PipelineBuildSettings that create_pipeline(mesh, material) builds
SettingsOf(mesh, material) ==
    LET sh == materials[material].shader_handle[1]
    IN  BuildSettings(meshes[mesh].layout, SortedLayouts(shaders[sh].bind_group_layouts), sh)

(***************************************************************************)
(* C11: no two registered pipelines have the same hash; a create_pipeline  *)
(* call whose hash matches a registered pipeline returns the handle of     *)
(* that pipeline and leaves the pipeline map unchanged, and a call whose   *)
(* hash matches none registers exactly one new pipeline, whose handle it   *)
(* returns.  (The log of the last call names the call's mesh and shader,   *)
(* which tells the steps that are such a call from the others.)            *)
(***************************************************************************)
C11_OnePipelinePerHash ==
    /\ [](\A h1, h2 \in DOMAIN pipelines :
              pipelines[h1].uuid = pipelines[h2].uuid => h1 = h2)
    /\ [][\A mesh \in DOMAIN meshes, material \in DOMAIN materials :
              (/\ materials[material].shader_handle # None
               /\ plog'.last # None
               /\ plog'.last[1].mesh = mesh
               /\ Some(plog'.last[1].shader) = materials[material].shader_handle
               /\ CreatePipeline(mesh, material))
              => LET hit == Matching(pipelines, SettingsOf(mesh, material))
                     returned == plog'.last[1].handle
                 IN  IF hit # {}
                     THEN pipelines' = pipelines /\ returned \in hit
                     ELSE /\ DOMAIN pipelines' = DOMAIN pipelines \cup {returned}
                          /\ returned \notin DOMAIN pipelines
                          /\ \A h \in DOMAIN pipelines : pipelines'[h] = pipelines[h]
                          /\ pipelines'[returned].uuid
                                = CalculateHash(SettingsOf(mesh, material))]_vars

\* a second call, with another mesh and the shader of the first call, found
\* the pipeline of the first call: one pipeline is registered
C11_Witness ==
    /\ plog.last # None
    /\ Cardinality(DOMAIN pipelines) = 1
    /\ LET c == plog.last[1]
           f == plog.first[meshes[c.mesh].layout]
       IN  c.mesh # f.mesh /\ c.shader = f.shader /\ c.handle \in DOMAIN pipelines

(***************************************************************************)
(* C12: two live ResourceHandles compare equal if and only if they are     *)
(* handles of the same allocation, whatever the uuids and type tags of     *)
(* their control blocks, and handles that compare equal hash equal.        *)
(***************************************************************************)
C12_EqualIffSameAllocation ==
    \A a1, a2 \in {a \in Allocs : held[a] > 0} :
        /\ HandleEq(HandleOf(a1), HandleOf(a2)) <=> a1 = a2
        /\ HandleEq(HandleOf(a1), HandleOf(a2)) =>
              HandleHashWords(HandleOf(a1)) = HandleHashWords(HandleOf(a2))

\* two allocations with live handles whose uuids and type tags coincide, one
\* of them cloned, and their handles unequal
C12_Witness ==
    \E a1, a2 \in Allocs :
        /\ a1 # a2
        /\ held[a1] > 1 /\ held[a2] > 0
        /\ uuid[a1] = uuid[a2] /\ rtype[a1] = rtype[a2]
        /\ ~HandleEq(HandleOf(a1), HandleOf(a2))

(***************************************************************************)
(* C13: a clone that observes the count 0 before its increment panics and  *)
(* yields no new handle.                                                   *)
(***************************************************************************)
C13_CloneOfZeroPanics ==
    [][\A a \in Allocs :
          (rc[a] = 0 /\ HandleClone(a))
          => /\ panicked'
             /\ held'[a] = held[a]
             /\ clones'[a] = clones[a]]_vars

\* the process panicked in the clone of a handle of a freed block that had
\* observed 0 (the increment left 1), and the block still has its one handle
C13_Witness ==
    /\ panicked
    /\ \E a \in Allocs :
          /\ block[a] = "freed" /\ rc[a] = 1 /\ held[a] = 1 /\ clones[a] = 0
          /\ \A b \in Allocs \ {a} : block[b] = "live"

\* the keys of the per-category maps of the manager
Keys ==
    DOMAIN meshes \cup DOMAIN textures \cup DOMAIN materials \cup DOMAIN models
        \cup DOMAIN uniforms \cup DOMAIN shaders \cup DOMAIN pipelines

(***************************************************************************)
(* C14: no operation removes a key from a per-category map of the manager, *)
(* and the count of the control block of every key is at least 1, also     *)
(* when the caller has dropped every handle it held.                       *)
(***************************************************************************)
C14_KeysStayAndStayAlive ==
    /\ [](\A h \in Keys : h \in DOMAIN hrc /\ hrc[h] >= 1 /\ hrc[h] >= 1 + hext[h])
    /\ [][/\ DOMAIN meshes \subseteq DOMAIN meshes'
          /\ DOMAIN textures \subseteq DOMAIN textures'
          /\ DOMAIN materials \subseteq DOMAIN materials'
          /\ DOMAIN models \subseteq DOMAIN models'
          /\ DOMAIN uniforms \subseteq DOMAIN uniforms'
          /\ DOMAIN shaders \subseteq DOMAIN shaders'
          /\ DOMAIN pipelines \subseteq DOMAIN pipelines']_vars

\* a material and a pipeline of which the caller has dropped every handle:
\* both are still keys, the count of the material is the 1 of the map's key
C14_Witness ==
    /\ \E h \in DOMAIN materials : hext[h] = 0 /\ hrc[h] = 1
    /\ \E h \in DOMAIN pipelines : hext[h] = 0 /\ hrc[h] >= 1

(***************************************************************************)
(* C15: a create_pipeline call on a material that has no shader assigned   *)
(* ends in a panic and registers no pipeline.                              *)
(***************************************************************************)
C15_NoShaderNoPipeline ==
    [][\A mesh \in DOMAIN meshes, material \in DOMAIN materials :
          (materials[material].shader_handle = None /\ CreatePipeline(mesh, material))
          => panicked' /\ pipelines' = pipelines /\ plog' = plog]_vars

\* the process panicked with a material without shader, after a
\* create_pipeline call on another material had registered a pipeline
C15_Witness ==
    /\ panicked
    /\ DOMAIN meshes # {}
    /\ DOMAIN pipelines # {}
    /\ \E material \in DOMAIN materials : materials[material].shader_handle = None

(***************************************************************************)
(* C16: assign_shader_to_material(material, shader) panics when the handle *)
(* is not a registered shader, leaving the shader handle and the binding   *)
(* table of the material as they were; otherwise the shader handle of the  *)
(* material becomes the handle and its binding table the reflected table   *)
(* of that shader.                                                         *)
(***************************************************************************)
C16_AssignShader ==
    [][\A m \in DOMAIN materials, h \in Keys :
          AssignShader(m, h)
          => IF h \in DOMAIN shaders
             THEN /\ ~panicked'
                  /\ materials'[m].shader_handle = Some(h)
                  /\ materials'[m].shader_bindings = Some(Reflect(shaders[h].source))
             ELSE /\ panicked'
                  /\ materials'[m] = materials[m]]_vars

\* the process panicked in an assignment to a material that has kept the
\* shader and the table of an earlier assignment
C16_Witness ==
    /\ panicked
    /\ \E m \in DOMAIN materials :
          /\ materials[m].shader_handle # None
          /\ materials[m].shader_bindings
                = Some(shaders[materials[m].shader_handle[1]].binds)

C10_Original ==
    \A m \in DOMAIN models :
        uniforms[models[m].transform_uniform_handle].data
            = TransformUniformNew(synced_transform[m])

(***************************************************************************)
(* C10 as amended: for every model on whose transform-uniform handle       *)
(* update_uniform_buffer was not called since the last                     *)
(* update_model_transforms (or create_model), the payload and the GPU      *)
(* bytes of the transform uniform are those of the matrix of the transform *)
(* as of that sync: a mutation of the live transform is not visible before *)
(* the next update_model_transforms, and is visible after it.              *)
(***************************************************************************)
C10_TransformAsOfSync ==
    \A m \in DOMAIN models :
        LET h == models[m].transform_uniform_handle
        IN  (uhist[h].last = None \/ uhist[h].synced) =>
                /\ uniforms[h].data = TransformUniformNew(synced_transform[m])
                /\ uniforms[h].gpu = AsBytes(TransformUniformNew(synced_transform[m]))

\* after a sync, the live transform was mutated and the uniform still holds
\* the matrix as of the sync
C10_Witness ==
    \E m \in DOMAIN models :
        LET h == models[m].transform_uniform_handle
        IN  /\ uhist[h].last = None
            /\ uhist[h].synced
            /\ GetMatrix(models[m].transform) # GetMatrix(synced_transform[m])
            /\ uniforms[h].data = TransformUniformNew(synced_transform[m])


ModelUniformsDistinct ==
    /\ \A m \in DOMAIN models : models[m].transform_uniform_handle \in DOMAIN uniforms
    /\ \A m1, m2 \in DOMAIN models :
          m1 # m2 => models[m1].transform_uniform_handle # models[m2].transform_uniform_handle

CreateModelRegistersOne ==
    \A mesh \in DOMAIN meshes, material \in DOMAIN materials, t \in Transforms :
        CreateModel(mesh, material, t) =>
            \E h \in DOMAIN models' \ DOMAIN models, th \in DOMAIN uniforms' \ DOMAIN uniforms :
                /\ DOMAIN models' = DOMAIN models \cup {h}
                /\ DOMAIN uniforms' = DOMAIN uniforms \cup {th}
                /\ \A m \in DOMAIN models : models'[m] = models[m]
                /\ \A u \in DOMAIN uniforms : uniforms'[u] = uniforms[u]
                /\ models'[h].transform_uniform_handle = th
                /\ \A m \in DOMAIN models : models[m].transform_uniform_handle # th
                /\ uniforms'[th].data = [transform |-> GetMatrix(t)]

C18_CreateModelRegistersOne == []ModelUniformsDistinct /\ [][CreateModelRegistersOne]_vars

\* two models; one was created with a transform that is not the identity
\* and still has it
C18_Witness ==
    /\ Cardinality(DOMAIN models) = 2
    /\ \E m \in DOMAIN models :
          /\ models[m].transform = [position |-> 1, scale |-> 1]
          /\ uniforms[models[m].transform_uniform_handle].data.transform = <<<<1, 0>>, <<1, 1>>>>


(***************************************************************************)
(* C19: when generate_bind_groups runs on a dirty material with a shader,  *)
(* for every TextureSampler binding named X_sampler: if no texture is      *)
(* assigned under X the call panics; and when every such binding has a     *)
(* texture under its X (and the Uniform and Texture bindings resolve) the  *)
(* call does not panic and the bind group of the binding's group has, at   *)
(* the binding's index, the sampler of the texture assigned under X.       *)
(***************************************************************************)
SamplerBindings(mat) ==
    {<<n, x>> \in (DOMAIN Bindings(mat)) \X TextureNames :
        Bindings(mat)[n].binding_type = "TextureSampler" /\ n = x \o "_sampler"}

\* nothing but a sampler's texture is missing: the Uniform bindings resolve,
\* no Storage binding, a registered texture under the name of every Texture
\* binding, and every TextureSampler binding is named X_sampler
OthersResolve(mat) ==
    /\ ~FirstPassFails(mat, uniforms)
    /\ \A n \in NamesOfType(mat, "Texture") : n \in DOMAIN mat.textures
    /\ \A n \in NamesOfType(mat, "TextureSampler") : \E p \in SamplerBindings(mat) : p[1] = n
    /\ \A n \in DOMAIN mat.textures : mat.textures[n] \in DOMAIN textures

C19_SamplerOfNamedTexture ==
    [][\A m \in DOMAIN materials :
          (/\ materials[m].needs_regen
           /\ materials[m].shader_bindings # None
           /\ GenerateBindGroups(m))
          => LET mat == materials[m]
             IN  /\ (\E p \in SamplerBindings(mat) : p[2] \notin DOMAIN mat.textures)
                       => panicked'
                 /\ (/\ OthersResolve(mat)
                     /\ \A p \in SamplerBindings(mat) : p[2] \in DOMAIN mat.textures)
                       => /\ ~panicked'
                          /\ \A p \in SamplerBindings(mat) :
                                LET b == Bindings(mat)[p[1]]
                                IN  /\ b.group \in DOMAIN materials'[m].bind_groups
                                    /\ [binding |-> b.binding,
                                        resource |-> <<"Sampler", mat.textures[p[2]]>>]
                                          \in materials'[m].bind_groups[b.group].entries]_vars

\* a generation has bound the sampler of the texture assigned under "diffuse"
\* for the binding diffuse_sampler, with a texture assigned under "normal" too
C19_Witness ==
    /\ ~panicked
    /\ \E m \in DOMAIN materials :
          /\ ~materials[m].needs_regen
          /\ materials[m].shader_bindings # None
          /\ SamplerBindings(materials[m]) = {<<"diffuse_sampler", "diffuse">>}
          /\ {"diffuse", "normal"} \subseteq DOMAIN materials[m].textures
          /\ 1 \in DOMAIN materials[m].bind_groups
          /\ [binding |-> 1, resource |-> <<"Sampler", materials[m].textures["diffuse"]>>]
                \in materials[m].bind_groups[1].entries


(***************************************************************************)
(* C20: a generate_bind_groups call on a dirty material that has no shader *)
(* panics; a material that has no shader is dirty; so a frame rendered     *)
(* while some registered material has no shader ends in a panic, in        *)
(* whatever order the materials are visited and whether or not the surface *)
(* yields a frame.                                                         *)
(***************************************************************************)
NoShader(mat) == mat.shader_handle = None

NoShaderIsDirty ==
    \A m \in DOMAIN materials :
        NoShader(materials[m]) => materials[m].needs_regen /\ materials[m].shader_bindings = None

GenerateWithoutShaderPanics ==
    \A m \in DOMAIN materials :
        (/\ NoShader(materials[m])
         /\ materials[m].needs_regen
         /\ GenerateBindGroups(m)) => panicked'

RenderWithoutShaderPanics ==
    \A order \in Orders(DOMAIN materials), frame_ok \in BOOLEAN :
        (/\ \E m \in DOMAIN materials : NoShader(materials[m])
         /\ Render(order, frame_ok)) => panicked'

C20_ShaderBeforeGenerate ==
    /\ []NoShaderIsDirty
    /\ [][GenerateWithoutShaderPanics /\ RenderWithoutShaderPanics]_vars

\* the process has panicked with two materials registered, one generated
\* from its shader and texture and one that has no shader
C20_Witness ==
    /\ panicked
    /\ \E m1, m2 \in DOMAIN materials :
          /\ NoShader(materials[m1])
          /\ ~NoShader(materials[m2])
          /\ ~materials[m2].needs_regen
          /\ materials[m2].bind_groups # <<>>


(***************************************************************************)
(* C21: load_shader of a source with a declaration var<keyword> name: type *)
(* whose keyword is neither uniform nor storage panics and registers no    *)
(* shader; otherwise the binding table of the new shader has, for every    *)
(* such declaration (the last of its name), a binding of the declared      *)
(* group and index under the name, Uniform for uniform and Storage for     *)
(* storage.                                                                *)
(***************************************************************************)
Keywords == {"uniform", "storage", "private", "workgroup", "Uniform"}

KeywordDecls(src) == {i \in 1..Len(src) : src[i].space \in Keywords}

C21_TypedDeclarations ==
    [][\A src \in ReflectSources :
          LoadShader(src) =>
             IF \E i \in KeywordDecls(src) : src[i].space \notin {"uniform", "storage"}
             THEN panicked' /\ shaders' = shaders
             ELSE /\ ~panicked'
                  /\ \E h \in DOMAIN shaders' \ DOMAIN shaders :
                        \A i \in KeywordDecls(src) :
                           (\A j \in KeywordDecls(src) : j > i => src[j].name # src[i].name)
                           => /\ src[i].name \in DOMAIN shaders'[h].binds
                              /\ shaders'[h].binds[src[i].name]
                                   = [group |-> src[i].group, binding |-> src[i].binding,
                                      name |-> src[i].name,
                                      binding_type |-> IF src[i].space = "uniform"
                                                       THEN "Uniform" ELSE "Storage"]]_vars

\* an unknown keyword has panicked, after a shader with both a Uniform and a
\* Storage binding was registered
C21_Witness ==
    /\ panicked
    /\ \E h \in DOMAIN shaders :
          /\ "light" \in DOMAIN shaders[h].binds
          /\ shaders[h].binds["light"].binding_type = "Uniform"
          /\ "lights" \in DOMAIN shaders[h].binds
          /\ shaders[h].binds["lights"].binding_type = "Storage"
          /\ shaders[h].binds["lights"].binding = 4


(***************************************************************************)
(* C22: the binding table of every registered shader has, for every opaque *)
(* declaration var name: type of its source (the last declaration of the   *)
(* name), a binding of the declared group and index under the name, of     *)
(* kind TextureSampler when the declared type contains "sampler" and of    *)
(* kind Texture otherwise.                                                 *)
(***************************************************************************)
OpaqueDecls(src) ==
    {i \in 1..Len(src) :
        /\ src[i].space = ""
        /\ \A j \in 1..Len(src) :
              src[j].name = src[i].name => j <= i /\ src[j].space = ""}

C22_Original ==
    \A h \in DOMAIN shaders :
        LET src == shaders[h].source
        IN  \A i \in OpaqueDecls(src) :
               /\ src[i].name \in DOMAIN shaders[h].binds
               /\ shaders[h].binds[src[i].name]
                    = [group |-> src[i].group, binding |-> src[i].binding,
                       name |-> src[i].name,
                       binding_type |-> IF ContainsSampler(src[i].type)
                                        THEN "TextureSampler" ELSE "Texture"]


(***************************************************************************)
(* C23: a new uniform buffer is clean; set_data replaces the payload and   *)
(* sets the dirty flag; update writes the payload to the GPU buffer if and *)
(* only if the flag is set, and leaves the flag clear; so at any time at   *)
(* most one write has happened since the last set_data, and a clean buffer *)
(* holds the bytes of its payload.                                         *)
(***************************************************************************)
AtMostOneUpload ==
    \A h \in DOMAIN uniforms :
        /\ uniforms[h].writes <= 1
        /\ ~uniforms[h].dirty => uniforms[h].gpu = AsBytes(uniforms[h].data)

UploadDiscipline ==
    /\ \A h \in DOMAIN uniforms' \ DOMAIN uniforms : ~uniforms'[h].dirty
    /\ \A h \in DOMAIN uniforms, d \in UserData :
          UniformSetData(h, d) =>
              /\ uniforms'[h].data = d
              /\ uniforms'[h].dirty
              /\ uniforms'[h].gpu = uniforms[h].gpu
    /\ \A h \in DOMAIN uniforms :
          UniformUpdate(h) =>
              /\ ~uniforms'[h].dirty
              /\ uniforms'[h].data = uniforms[h].data
              /\ IF uniforms[h].dirty
                 THEN /\ uniforms'[h].gpu = AsBytes(uniforms[h].data)
                      /\ uniforms'[h].writes = uniforms[h].writes + 1
                 ELSE /\ uniforms'[h].gpu = uniforms[h].gpu
                      /\ uniforms'[h].writes = uniforms[h].writes

C23_UploadDiscipline == []AtMostOneUpload /\ [][UploadDiscipline]_vars

\* a payload set twice without an update in between, then uploaded once: the
\* buffer is clean and holds bytes other than those it was created with
C23_Witness ==
    \E h \in DOMAIN uniforms :
        /\ uniforms[h].writes = 1
        /\ ~uniforms[h].dirty
        /\ uhist[h].last = None
        /\ \E d \in UserData : uniforms[h].gpu # AsBytes(d) /\ uniforms[h].data # d


(***************************************************************************)
(* C24                                                                     *)
(***************************************************************************)

IsPrefix(a, b) == Len(a) <= Len(b) /\ SubSeq(b, 1, Len(a)) = a

\* C24: in every rendered frame the steps run exactly once each and in this
\* order: the caller's update function, update_model_transforms,
\* update_materials, the render step.  The steps a frame has completed are
\* at any time the first ones of that list, the render step starts with the
\* first three completed, and a frame that ends without a panic has
\* completed exactly the four.
C24_FrameStepsInOrder ==
    /\ IsPrefix(steps, FrameSteps)
    /\ pc \in {"render", "generate", "draw"} => steps = SubSeq(FrameSteps, 1, 3)
    /\ (pc = "idle" /\ steps # <<>> /\ ~panicked) => steps = FrameSteps

\* a frame that drew a model has ended
C24_Witness ==
    /\ pc = "idle"
    /\ ~panicked
    /\ steps = FrameSteps
    /\ bind_calls # {}

(***************************************************************************)
(* C25                                                                     *)
(***************************************************************************)

CopiesCurrent(mats, us) ==
    \A m \in DOMAIN mats :
        \A n \in DOMAIN mats[m].bind_group_buffers \cap DOMAIN mats[m].uniforms :
            mats[m].bind_group_buffers[n].bytes = us[mats[m].uniforms[n]].gpu

\* C26: after update_materials, for every material (dirty or clean) and
\* every uniform name that has a per-binding copy buffer, the copy buffer
\* holds the current GPU bytes of the uniform assigned under that name, also
\* when one uniform is assigned to two materials.
C26_Original ==
    [][(FrameSync /\ ~panicked') => CopiesCurrent(materials', uniforms')]_vars

(***************************************************************************)
(* C27                                                                     *)
(***************************************************************************)

\* C27: when several threads, each owning its own clone, concurrently clone
\* and drop handles of one allocation in any interleaving, no update of the
\* count is lost (the count is the number of live handles plus the clones
\* whose handle is not yet returned), the control block is freed at most
\* once and exactly once when every handle is dropped and every drop has
\* returned, and only the drop of the last live handle frees it: no thread
\* frees, and the block is not freed, while a handle is alive or a clone is
\* under way; no clone ever reads the count 0.
C27_ConcurrentCloneDrop ==
    /\ block[Shared] = "live" =>
          rc[Shared] = held[Shared] + Cardinality(AtPc("cloned"))
    /\ frees[Shared] <= 1
    /\ Cardinality(AtPc("freeing")) + frees[Shared] <= 1
    /\ (block[Shared] = "freed" \/ AtPc("freeing") # {}) =>
          held[Shared] = 0 /\ AtPc("cloned") = {}
    /\ (held[Shared] = 0 /\ \A t \in Threads : threads[t].pc = "idle") =>
          block[Shared] = "freed" /\ frees[Shared] = 1
    /\ ~panicked

\* the threads have cloned, every handle has been dropped, every drop has
\* returned and the block is freed
C27_Witness ==
    /\ block[Shared] = "freed"
    /\ frees[Shared] = 1
    /\ clones[Shared] > 0
    /\ drops[Shared] = MaxThreads + clones[Shared]

(***************************************************************************)
(* C28                                                                     *)
(***************************************************************************)

\* C28: access to the resource manager through MutHandle is mutually
\* exclusive (at most one holder of the guard at any time), and within one
\* frame the lock acquisitions of the caller's update, of the maintenance
\* step and of the render step are strictly sequential and never nested:
\* each of the three finds the lock free, each step runs under its own
\* guard alone, and the frame handler never blocks on a lock it holds.
C28_LockSequential ==
    /\ Len(lock) <= 1
    /\ pc # "blocked"
    /\ ~panicked =>
          /\ pc \in {"idle", "render_func", "sync", "render"} => lock = <<>>
          /\ pc = "render_func_locked" => lock = <<"render_func">>
          /\ pc \in {"update_model_transforms", "update_materials"} => lock = <<"sync">>
          /\ pc \in {"generate", "draw"} => lock = <<"render">>

\* the render step holds the guard, the third of the frame
C28_Witness ==
    /\ pc = "generate"
    /\ lock = <<"render">>
    /\ steps = SubSeq(FrameSteps, 1, 3)
    /\ DOMAIN models # {}

(***************************************************************************)
(* C29                                                                     *)
(***************************************************************************)

\* the models that reference material m
ModelsOf(m) == {mo \in DOMAIN models : models[mo].material = m}

\* C29: in the render step a material is drawn under a pipeline if and only
\* if the material's shader handle equals the shader handle recorded in
\* that pipeline, whether or not create_pipeline was called for it, and
\* models are drawn only through the material they reference.  After a
\* frame that ended without a panic: a material with models was bound
\* under a pipeline exactly when the two shader handles are equal, each of
\* its models was then drawn, and every draw of a model went through the
\* model's own material.
C29_DrawnByShader ==
    (pc = "idle" /\ ~panicked /\ steps = FrameSteps) =>
        /\ \A p \in DOMAIN pipelines, m \in DOMAIN materials :
              \A mo \in ModelsOf(m) :
                 (\E c \in bind_calls : c.pipeline = p /\ c.material = m /\ c.model = mo)
                     <=> materials[m].shader_handle = Some(pipelines[p].shader)
        /\ \A c \in bind_calls :
              /\ c.material = models[c.model].material
              /\ c.shader = Some(pipelines[c.pipeline].shader)

\* one create_pipeline call has returned the only pipeline, and two
\* materials of its shader were drawn under it in the frame
C29_Witness ==
    /\ pc = "idle"
    /\ ~panicked
    /\ \E p \in DOMAIN pipelines :
          /\ DOMAIN pipelines = {p}
          /\ hext[p] = 1
          /\ \E c, d \in bind_calls :
                c.material # d.material /\ c.pipeline = p /\ d.pipeline = p

(***************************************************************************)
(* C30                                                                     *)
(***************************************************************************)

\* the group indices of the binding table of the material's current shader
GroupsOf(mat) == {Bindings(mat)[n].group : n \in DOMAIN Bindings(mat)}

\* C30: after every successful generate_bind_groups (a call on a dirty
\* material that returns, which alone clears the flag), the material holds
\* exactly one bind group per distinct group index of its current shader's
\* binding table and none at any other index, also when the material
\* previously generated bind groups.
C30_Original ==
    [][\A m \in DOMAIN materials :
          (/\ m \in DOMAIN materials'
           /\ materials[m].needs_regen
           /\ ~materials'[m].needs_regen
           /\ ~panicked')
          => DOMAIN materials'[m].bind_groups = GroupsOf(materials'[m])]_vars


(***************************************************************************)
(* C31                                                                     *)
(***************************************************************************)

\* the sizes the window layer delivers; a minimised window has size zero
WindowSizes == [width : 0..MaxExtent, height : 0..MaxExtent]

\* Surface::configure fails fatally on a configuration of width or height 0
ConfigureFails(cfg) == cfg.width = 0 \/ cfg.height = 0

ResizeSurfaceKeepsOld(sf, size) == [sf EXCEPT !.config = size]

\* SurfaceWrapper::resize_surface: the width and height of the stored
\* configuration are set and the surface is configured with it
ResizeSurface(sf, size) == [config |-> size, configured |-> size]

\* Renderer::run, WindowEvent::Resized: runs between two handlers of the
\* event loop; it resizes the surface and requests a redraw
Resized(size) ==
    /\ ~panicked
    /\ pc = "idle"
    /\ last_size' = size
    /\ IF ConfigureFails(size)
       THEN panicked' = TRUE /\ surface' = [surface EXCEPT !.config = size]
       ELSE surface' = ResizeSurface(surface, size) /\ UNCHANGED panicked
    /\ UNCHANGED <<pc, lock, steps, bind_calls, threads, frame_size, hvars, mvars>>

\* the event loop with nothing to draw: resize events between the frames
NextResize ==
    \/ \E size \in WindowSizes : Resized(size)
    \/ RedrawRequested
    \/ LockAt("render_func")
    \/ RenderFunc
    \/ LockAt("sync")
    \/ FrameUpdateModelTransforms
    \/ FrameUpdateMaterials
    \/ LockAt("render")
    \/ \E order \in Orders(DOMAIN materials) : RenderGenerate(order)
    \/ \E frame_ok \in BOOLEAN : RenderDraw(frame_ok)

SpecResize == Init /\ [][NextResize]_vars

\* C31: while the program runs the surface is configured with the latest
\* size delivered, at every position of the redraw handler, and every frame
\* the handler renders has that size: the resize handler configures the
\* surface itself, before any later redraw is handled.
C31_ResizeSynchronous ==
    /\ [](~panicked => surface = [config |-> last_size, configured |-> last_size])
    /\ [][(frame_size' # frame_size /\ frame_size' # None)
             => frame_size' = Some(last_size')]_vars

C31_Witness ==
    /\ ~panicked
    /\ last_size # InitialSize
    /\ "render" \in {steps[i] : i \in DOMAIN steps}
    /\ frame_size = Some(last_size)


(***************************************************************************)
(* C32                                                                     *)
(***************************************************************************)

\* C32: the handle create_pipeline(mesh, material) returns denotes a
\* registered pipeline whose recorded shader handle is the shader handle of
\* the material of the call (the log of the last call holds the handle
\* returned and the material's shader at the call), which is what the
\* frame's linking needs to draw the models of the material.
C32_Original ==
    plog.last # None
    => /\ plog.last[1].handle \in DOMAIN pipelines
       /\ pipelines[plog.last[1].handle].shader = plog.last[1].shader


(***************************************************************************)
(* C33                                                                     *)
(***************************************************************************)

\* the payloads a caller can hand over: update_uniform_buffer takes a
\* payload of any type, whatever the type the buffer was created with
Payloads == UserData \cup {ShortData}

\* uniform buffers created and updated with payloads of either size, and the
\* transform uniforms of models synced by the frame
NextPayload ==
    \/ DOMAIN meshes = {} /\ LoadMesh("cube.obj", TRUE)
    \/ DOMAIN materials = {} /\ CreateMaterial
    \/ \E d \in Payloads : CreateUniformBuffer(d)
    \/ \E h \in DOMAIN uniforms, d \in Payloads : UpdateUniformBuffer(h, d)
    \/ \E mesh \in DOMAIN meshes, material \in DOMAIN materials, t \in Transforms :
          Cardinality(DOMAIN models) < MaxModels /\ CreateModel(mesh, material, t)
    \/ \E m \in DOMAIN models, t \in Transforms : SetModelTransform(m, t)
    \/ FrameSync

SpecPayload == Init /\ [][NextPayload]_vars

\* C33: every uniform buffer of the manager whose dirty flag is clear has
\* GPU buffer bytes equal to the bytes of its current payload, after any
\* sequence of create_uniform_buffer, update_uniform_buffer, create_model
\* and update_model_transforms.
C33_Original ==
    \A h \in DOMAIN uniforms :
        ~uniforms[h].dirty => uniforms[h].gpu = AsBytes(uniforms[h].data)


(***************************************************************************)
(* C34                                                                     *)
(***************************************************************************)

\* shaders with a storage buffer: alone, next to a uniform of its group, and
\* next to a texture
StorageSources ==
    {<<Decl(0, 0, "storage", "particles", "Particles")>>,
     <<Decl(2, 3, "uniform", "light", "Light"), Decl(2, 4, "storage", "lights", "Lights")>>,
     <<Decl(0, 0, "", "diffuse", "texture_2d<f32>"),
       Decl(1, 0, "storage", "particles", "Particles")>>}

\* the names of the bindings of these shaders
StorageNames == {"particles", "light", "lights"}

\* one material, given shaders with storage bindings and assignments under
\* the names of their bindings
NextStorage ==
    \/ LoadTexture
    \/ DOMAIN uniforms = {} /\ \E d \in UserData : CreateUniformBuffer(d)
    \/ \E src \in StorageSources \cup {SrcDiffuse} : LoadShader(src)
    \/ DOMAIN materials = {} /\ CreateMaterial
    \/ \E m \in DOMAIN materials, h \in DOMAIN textures :
          AssignTexture(m, h, "diffuse")
    \/ \E m \in DOMAIN materials, h \in DOMAIN uniforms, n \in StorageNames :
          AssignUniform(m, h, n)
    \/ \E m \in DOMAIN materials, h \in DOMAIN shaders : AssignShader(m, h)
    \/ \E m \in DOMAIN materials : GenerateBindGroups(m)

SpecStorage == Init /\ [][NextStorage]_vars

\* the binding table of the material holds a Storage binding
HasStorage(mat) ==
    mat.shader_bindings # None /\ NamesOfType(mat, "Storage") # {}

\* C34: a call of generate_bind_groups on a dirty material whose binding
\* table holds a Storage binding panics and leaves the dirty flag set,
\* whatever textures and uniforms the material has been assigned.
C34_StorageIsFatal ==
    [][\A m \in DOMAIN materials :
          (/\ materials[m].needs_regen
           /\ HasStorage(materials[m])
           /\ GenerateBindGroups(m))
          => panicked' /\ materials'[m].needs_regen]_vars

\* the call panicked on a material that has an assignment for every binding
\* of its table, the Storage binding included
C34_Witness ==
    /\ panicked
    /\ \E m \in DOMAIN materials :
          /\ HasStorage(materials[m])
          /\ materials[m].needs_regen
          /\ \A n \in DOMAIN Bindings(materials[m]) :
                IF Bindings(materials[m])[n].binding_type = "Texture"
                THEN n \in DOMAIN materials[m].textures
                ELSE n \in DOMAIN materials[m].uniforms


(***************************************************************************)
(* C35                                                                     *)
(***************************************************************************)

\* shaders by the group indices they declare: {0}, {0, 1}, {2} and {0, 2}
LayoutSources ==
    ShaderSources \cup
    {<<Decl(2, 0, "uniform", "camera", "Camera")>>,
     <<Decl(0, 0, "", "diffuse", "texture_2d<f32>"),
       Decl(2, 0, "uniform", "camera", "Camera")>>}

\* pipelines created for materials of shaders of these group indices
NextLayouts ==
    \/ DOMAIN meshes = {} /\ LoadMesh("cube.obj", TRUE)
    \/ \E src \in LayoutSources : LoadShader(src)
    \/ CreateMaterial
    \/ \E m \in DOMAIN materials, h \in DOMAIN shaders : AssignShader(m, h)
    \/ \E mesh \in DOMAIN meshes, material \in DOMAIN materials :
          CreatePipeline(mesh, material)

SpecLayouts == Init /\ [][NextLayouts]_vars

\* C35: for the shader of every create_pipeline call, the list of
\* get_bind_group_layouts has one layout per group index of the shader, in
\* ascending order of group index, and the layout of group index g stands at
\* position g of the list (counted from 0), the index at which
\* bind_material sets the bind group of group g.
C35_Original ==
    plog.last # None
    => LET layouts == shaders[plog.last[1].shader].bind_group_layouts
           list == SortedLayouts(layouts)
       IN  /\ Len(list) = Cardinality(DOMAIN layouts)
           /\ \A g1, g2 \in DOMAIN layouts :
                 g1 < g2 => \E i, j \in 1..Len(list) :
                               i < j /\ list[i] = layouts[g1] /\ list[j] = layouts[g2]
           /\ \A g \in DOMAIN layouts : g + 1 <= Len(list) /\ list[g + 1] = layouts[g]


(***************************************************************************)
(* C36                                                                     *)
(***************************************************************************)

\* C36: the mesh map, the vertex-buffer map and the index-buffer map have
\* the same keys, and for every mesh the number of its vertex buffers and
\* the number of its index buffers equal the number of its submeshes (what
\* the draw loop relies on when it indexes both lists by submesh).
C36_MeshMapsAligned ==
    /\ DOMAIN mesh_vertex_buffers = DOMAIN meshes
    /\ DOMAIN mesh_index_buffers = DOMAIN meshes
    /\ \A h \in DOMAIN meshes :
          /\ Len(mesh_vertex_buffers[h]) = Len(meshes[h].sub_meshes)
          /\ Len(mesh_index_buffers[h]) = Len(meshes[h].sub_meshes)

\* two meshes are loaded, one of two submeshes and one of another number
C36_Witness ==
    \E h1, h2 \in DOMAIN meshes :
        /\ Len(meshes[h1].sub_meshes) = 2
        /\ Len(meshes[h2].sub_meshes) < 2
        /\ Len(mesh_vertex_buffers[h1]) = 2
        /\ Len(mesh_index_buffers[h2]) = Len(meshes[h2].sub_meshes)


(***************************************************************************)
(* C37                                                                     *)
(***************************************************************************)

\* every creation operation of the manager: one mesh, one shader and one
\* pipeline, several textures, materials, uniform buffers and models
NextCreate ==
    \/ DOMAIN meshes = {} /\ LoadMesh("cube.obj", TRUE)
    \/ LoadTexture
    \/ CreateMaterial
    \/ DOMAIN shaders = {} /\ LoadShader(SrcDiffuse)
    \/ \E m \in DOMAIN materials, h \in DOMAIN shaders :
          materials[m].shader_handle = None /\ AssignShader(m, h)
    \/ \E mesh \in DOMAIN meshes, material \in DOMAIN materials :
          /\ Cardinality(DOMAIN models) < MaxModels
          /\ CreateModel(mesh, material, [position |-> 0, scale |-> 1])
    \/ CreateUniformBuffer([view |-> <<<<1, 0>>, <<0, 1>>>>])
    \/ \E mesh \in DOMAIN meshes, material \in DOMAIN materials :
          /\ DOMAIN pipelines = {}
          /\ materials[material].shader_handle # None
          /\ CreatePipeline(mesh, material)

SpecCreate == Init /\ [][NextCreate]_vars

\* the per-category maps of the manager and its sub-managers
Categories == {"mesh", "texture", "material", "model", "uniform", "shader", "pipeline"}

KeysOf(cat) ==
    CASE cat = "mesh" -> DOMAIN meshes
      [] cat = "texture" -> DOMAIN textures
      [] cat = "material" -> DOMAIN materials
      [] cat = "model" -> DOMAIN models
      [] cat = "uniform" -> DOMAIN uniforms
      [] cat = "shader" -> DOMAIN shaders
      [] cat = "pipeline" -> DOMAIN pipelines

=============================================================================
